---------------------------- MODULE Spec2Model ----------------------------
(***************************************************************************)
(* Model of src/api/parse.py: the lead-parser HTTP service.                *)
(*                                                                         *)
(* A Python str is a TLA+ string; characters are read with SubSeq, so the  *)
(* substring tests, lower-casing and regular-expression scans of the code  *)
(* are computed character by character.  One request is in flight at a     *)
(* time; pc is the position of parse_email in its body.                    *)
(***************************************************************************)
EXTENDS Naturals, Sequences, FiniteSets, TLC

(***************************************************************************)
(* Bounds of the model.                                                    *)
(***************************************************************************)
\* a request text is made of at most MaxLines lines of the vocabulary
MaxLines == 2

(***************************************************************************)
(* Characters and str methods.                                             *)
(***************************************************************************)
NL == "\n"

UpperAlpha == "ABCDEFGHIJKLMNOPQRSTUVWXYZ"

LowerAlpha == "abcdefghijklmnopqrstuvwxyz"

Digits == "0123456789"

\* s[a-1:b] (1-based, both ends included), cut to the string as a slice is
Slice(s, a, b) == SubSeq(s, IF a < 1 THEN 1 ELSE a, IF b > Len(s) THEN Len(s) ELSE b)

\* s[i-1:i]: the character at position i, '' outside the string
At(s, i) == Slice(s, i, i)

\* c in chars, for a one-character c
InChars(c, chars) == \E k \in 1..Len(chars) : SubSeq(chars, k, k) = c

\* the least member of a non-empty set of numbers
MinOf(S) == CHOOSE i \in S : \A m \in S : i <= m

\* the greatest member of a non-empty set of numbers
MaxOf(S) == CHOOSE i \in S : \A m \in S : i >= m

\* the member of a one-member set: The({ e : x \in {v} }) is e with v for x
The(S) == CHOOSE x \in S : TRUE

\* the least member of a set of positions, 0 when it is empty
First(S) == IF S = {} THEN 0 ELSE MinOf(S)

IsUpper(c) == InChars(c, UpperAlpha)

IsLower(c) == InChars(c, LowerAlpha)

IsAlpha(c) == IsUpper(c) \/ IsLower(c)

IsDigit(c) == InChars(c, Digits)

\* \s of the re module, over the characters the model's texts hold
IsSpace(c) == c = " " \/ c = NL \/ c = "\t" \/ c = "\r"

LowerChar(c) ==
    IF IsUpper(c)
    THEN At(LowerAlpha, CHOOSE k \in 1..Len(UpperAlpha) : At(UpperAlpha, k) = c)
    ELSE c

UpperChar(c) ==
    IF IsLower(c)
    THEN At(UpperAlpha, CHOOSE k \in 1..Len(LowerAlpha) : At(LowerAlpha, k) = c)
    ELSE c

\* ''.join(parts[a-1:b]), by halves
RECURSIVE Concat(_, _, _)
Concat(parts, a, b) ==
    IF a > b THEN ""
    ELSE IF a = b THEN parts[a]
    ELSE Concat(parts, a, (a + b) \div 2) \o Concat(parts, (a + b) \div 2 + 1, b)

\* str.lower()
Lower(s) == Concat([i \in 1..Len(s) |-> LowerChar(At(s, i))], 1, Len(s))

\* str.upper()
Upper(s) == Concat([i \in 1..Len(s) |-> UpperChar(At(s, i))], 1, Len(s))

\* the characters of s[a-1:b] at the positions keep holds of, by halves
RECURSIVE SelectRange(_, _, _, _)
SelectRange(s, keep, a, b) ==
    IF a > b THEN ""
    ELSE IF a = b THEN (IF keep[a] THEN At(s, a) ELSE "")
    ELSE SelectRange(s, keep, a, (a + b) \div 2)
            \o SelectRange(s, keep, (a + b) \div 2 + 1, b)

\* first position >= i of s holding none of the characters of chars; Len(s)+1 if none
SkipChars(s, i, chars) ==
    IF i > Len(s) THEN i
    ELSE MinOf({ j \in i..(Len(s) + 1) : ~InChars(At(s, j), chars) })

\* first position >= i of s holding one of the characters of stops; Len(s)+1 if none
ScanTo(s, i, stops) ==
    IF i > Len(s) THEN i
    ELSE MinOf({ j \in i..(Len(s) + 1) : j > Len(s) \/ InChars(At(s, j), stops) })

WhiteSpace == " \t\n\r"

\* first position >= i of s holding a character that is not \s; Len(s)+1 if none
SkipSpace(s, i) == SkipChars(s, i, WhiteSpace)

\* first position >= i of s that holds no digit
SkipDigits(s, i) == SkipChars(s, i, Digits)

\* s[i-1:].startswith(p)
StartsAt(s, p, i) ==
    /\ i >= 1
    /\ i + Len(p) - 1 <= Len(s)
    /\ Slice(s, i, i + Len(p) - 1) = p

\* p in s
Contains(s, p) == \E i \in 1..(Len(s) + 1) : StartsAt(s, p, i)

\* str.find from position from (1-based); 0 when absent
Find(s, p, from) == First({ i \in from..(Len(s) + 1) : StartsAt(s, p, i) })

\* s[i-1:] (1-based i)
From(s, i) == Slice(s, i, Len(s))

\* s.strip(chars)
StripChars(s, chars) ==
    Slice(s, SkipChars(s, 1, chars),
          MaxOf({ b \in 0..Len(s) : b = 0 \/ ~InChars(At(s, b), chars) }))

\* str.strip()
Strip(s) == StripChars(s, WhiteSpace)

(***************************************************************************)
(* Python values that are not always str: the JSON document of a request   *)
(* and the local `body`.  t is the Python type, s the str itself (t =      *)
(* "str") or the JSON literal of the value.                                *)
(***************************************************************************)
PyStr(s) == [t |-> "str", s |-> s]

PyNone == [t |-> "NoneType", s |-> "null"]

PyLit(t, lit) == [t |-> t, s |-> lit]

\* bool(v) of Python
Truthy(v) ==
    CASE v.t = "str" -> v.s # ""
      [] v.t = "int" -> v.s # "0"
      [] v.t = "list" -> v.s # "[]"
      [] v.t = "dict" -> v.s # "{}"
      [] v.t = "bool" -> v.s = "true"
      [] OTHER -> FALSE

(***************************************************************************)
(* Requests.  A request carries its payload text, its Content-Type and the *)
(* JSON document the payload is the serialisation of (json.loads is        *)
(* library code: the model builds payload and document together).          *)
(***************************************************************************)
\* the lines request texts are made of
Vocabulary ==
    { "FCBB.com", "bizbuysell", "Businesses For Sale", "dealstream",
      "murphy business", "BusinessBroker.net", "restaurants-for-sale.com",
      "franchise resales", "LoopNet",
      "<div>", "hello",
      "First Name: Jane", "Domain: [x" }

RECURSIVE JoinLines(_)
JoinLines(ls) ==
    IF Len(ls) = 0 THEN ""
    ELSE IF Len(ls) = 1 THEN ls[1]
    ELSE ls[1] \o NL \o JoinLines(Tail(ls))

LineSeqs(n) == UNION { [1..k -> Vocabulary] : k \in 0..n }

Texts == { JoinLines(ls) : ls \in LineSeqs(MaxLines) }

ShortTexts == { JoinLines(ls) : ls \in LineSeqs(1) }

JsonEscapeChar(c) ==
    CASE c = NL -> "\\n"
      [] c = "\"" -> "\\\""
      [] c = "\\" -> "\\\\"
      [] OTHER -> c

\* the JSON text of a value
JsonText(v) ==
    IF v.t = "str" THEN "\"" \o Concat([i \in 1..Len(v.s) |-> JsonEscapeChar(At(v.s, i))], 1, Len(v.s)) \o "\"" ELSE v.s

\* the payload is not a JSON document
NotJson == [t |-> "invalid", key |-> "", val |-> PyNone]

\* data = None
DataNone == [t |-> "NoneType", key |-> "", val |-> PyNone]

JsonObject(key, val) == [t |-> "dict", key |-> key, val |-> val]

JsonArray == [t |-> "list", key |-> "", val |-> PyNone]

ObjectText(key, val) == "{\"" \o key \o "\": " \o JsonText(val) \o "}"

ContentTypes == { "application/json", "text/plain" }

NonStringValues ==
    { PyLit("int", "5"), PyLit("int", "0"), PyLit("list", "[1]"),
      PyLit("list", "[]"), PyLit("dict", "{\"a\": 1}"), PyLit("bool", "true"),
      PyNone }

Requests ==
    { [raw |-> t, ctype |-> "text/plain", json |-> NotJson] : t \in Texts }
    \cup { [raw |-> t, ctype |-> "application/json", json |-> NotJson] :
             t \in ShortTexts }
    \cup { [raw |-> ObjectText("body", PyStr(t)), ctype |-> "application/json",
            json |-> JsonObject("body", PyStr(t))] : t \in Texts }
    \cup { [raw |-> ObjectText("body", PyStr(t)), ctype |-> "text/plain",
            json |-> JsonObject("body", PyStr(t))] : t \in ShortTexts }
    \cup { [raw |-> ObjectText("subject", PyStr(t)), ctype |-> "application/json",
            json |-> JsonObject("subject", PyStr(t))] : t \in ShortTexts }
    \cup { [raw |-> ObjectText("body", v), ctype |-> c,
            json |-> JsonObject("body", v)] :
             v \in NonStringValues, c \in ContentTypes }
    \cup { [raw |-> "[\"fcbb.com\"]", ctype |-> "application/json",
            json |-> JsonArray] }

\* get_json with force=True: the Content-Type is not looked at
GetJsonForced(req) ==
    IF req.json.t # "invalid" THEN req.json ELSE DataNone

\* request.get_json(force=False, silent=True): None unless the request is
\* declared JSON and its payload is a JSON document
GetJson(req) ==
    IF req.ctype = "application/json" /\ req.json.t # "invalid"
    THEN req.json
    ELSE DataNone

\* isinstance(data, dict) and data.get('body')
DataBody(data) ==
    IF data.t = "dict" /\ data.key = "body" THEN data.val ELSE PyNone


(***************************************************************************)
(* Flat extractions and the mapper.  A dict with str keys is a function    *)
(* on a set of strings.                                                    *)
(***************************************************************************)
\* {}
EmptyDict == [k \in {} |-> ""]

\* flat.get(k, "")
Get(flat, k) == IF k \in DOMAIN flat THEN flat[k] ELSE ""

\* a or b, on str
Or(a, b) == IF a # "" THEN a ELSE b

\* a blanking that looks for the phrase in lower case only
remove_not_disclosed_lower_only(data) ==
    [k \in DOMAIN data |->
        IF Contains(Strip(data[k]), "not disclosed") THEN "" ELSE data[k]]

remove_not_disclosed_fields(data) ==
    [k \in DOMAIN data |->
        IF Contains(Strip(Lower(data[k])), "not disclosed") THEN "" ELSE data[k]]

WithDebug(nested, error_debug) ==
    [k \in DOMAIN nested \cup {"error_debug"} |->
        IF k = "error_debug" THEN error_debug ELSE nested[k]]

\* a mapper that backfills listing_url for every source
to_nested_backfilling(source, flat0, error_debug) ==
    LET flat == remove_not_disclosed_fields(flat0)
        listing_url ==
            IF FALSE
            THEN Get(flat, "listing_url")
            ELSE Or(Get(flat, "listing_url"),
                    Or(Get(flat, "originating_website"),
                       Get(flat, "current_site_page_url")))
        nested ==
            [ source |-> source,
              contact |->
                [ first_name |-> Get(flat, "first_name"),
                  last_name |-> Get(flat, "last_name"),
                  email |-> Get(flat, "email"),
                  phone |-> Get(flat, "phone"),
                  best_time_to_contact |-> Get(flat, "best_time_to_contact") ],
              address |->
                [ line1 |-> Or(Get(flat, "address"), Get(flat, "address1")),
                  city |-> Get(flat, "city"),
                  state |-> Get(flat, "state"),
                  zip |-> Or(Get(flat, "contact_zip"), Get(flat, "zip")),
                  country |-> Get(flat, "country") ],
              listing |->
                [ headline |-> Get(flat, "headline"),
                  ref_id |-> Get(flat, "ref_id"),
                  listing_id |-> Get(flat, "listing_id"),
                  listing_url |-> listing_url,
                  originating_website |-> Get(flat, "originating_website"),
                  current_site_page_url |-> Get(flat, "current_site_page_url"),
                  domain |-> Get(flat, "domain") ],
              details |->
                [ purchase_timeline |-> Get(flat, "purchase_timeline"),
                  investment_amount |-> Get(flat, "investment_amount"),
                  services_interested_in |-> Get(flat, "services_interested_in"),
                  heard_about |-> Get(flat, "heard_about") ],
              comments |-> Get(flat, "comments") ]
    IN  IF error_debug # "" THEN WithDebug(nested, error_debug) ELSE nested

to_nested(source, flat0, error_debug) ==
    LET flat == remove_not_disclosed_fields(flat0)
        listing_url ==
            IF source = "fcbb"
            THEN Get(flat, "listing_url")
            ELSE Or(Get(flat, "listing_url"),
                    Or(Get(flat, "originating_website"),
                       Get(flat, "current_site_page_url")))
        nested ==
            [ source |-> source,
              contact |->
                [ first_name |-> Get(flat, "first_name"),
                  last_name |-> Get(flat, "last_name"),
                  email |-> Get(flat, "email"),
                  phone |-> Get(flat, "phone"),
                  best_time_to_contact |-> Get(flat, "best_time_to_contact") ],
              address |->
                [ line1 |-> Or(Get(flat, "address"), Get(flat, "address1")),
                  city |-> Get(flat, "city"),
                  state |-> Get(flat, "state"),
                  zip |-> Or(Get(flat, "contact_zip"), Get(flat, "zip")),
                  country |-> Get(flat, "country") ],
              listing |->
                [ headline |-> Get(flat, "headline"),
                  ref_id |-> Get(flat, "ref_id"),
                  listing_id |-> Get(flat, "listing_id"),
                  listing_url |-> listing_url,
                  originating_website |-> Get(flat, "originating_website"),
                  current_site_page_url |-> Get(flat, "current_site_page_url"),
                  domain |-> Get(flat, "domain") ],
              details |->
                [ purchase_timeline |-> Get(flat, "purchase_timeline"),
                  investment_amount |-> Get(flat, "investment_amount"),
                  services_interested_in |-> Get(flat, "services_interested_in"),
                  heard_about |-> Get(flat, "heard_about") ],
              comments |-> Get(flat, "comments") ]
    IN  IF error_debug # "" THEN WithDebug(nested, error_debug) ELSE nested


(***************************************************************************)
(* Regular-expression scans shared by the extractors.                      *)
(***************************************************************************)
\* the first value of g, a function on positions, that is not 0; 0 if none
FirstNonZero(g) ==
    IF \A i \in DOMAIN g : g[i] = 0 THEN 0
    ELSE g[MinOf({ i \in DOMAIN g : g[i] # 0 })]

\* s[:i-1] for the first position i of S, s when S is empty
CutAtFirst(s, S) == IF S = {} THEN s ELSE Slice(s, 1, MinOf(S) - 1)

\* Where ([^stops]+) matches after the \s* that ran from c to j: at j, or,
\* when j holds a stop or ends the text, at the last white space before j
\* that is no stop, which the greedy \s* gives back; 0 when there is none.
GroupFrom(low, c, j, stops) ==
    IF j <= Len(low) /\ ~InChars(At(low, j), stops) THEN j
    ELSE MaxOf({0} \cup { k \in c..(j - 1) : ~InChars(At(low, k), stops) })

\* Where \s*([^stops]+) matches from position c of low: the position its
\* group starts at, 0 when it does not match.
GroupAfter(low, c, stops) == GroupFrom(low, c, SkipSpace(low, c), stops)

\* the position after a colon at position c, or 0
ColonAt(low, c) == IF At(low, c) = ":" THEN c + 1 ELSE 0

\* label\s*: matches at position i of low: the position after the colon, or 0
LabelColonAt(low, label, i) ==
    IF StartsAt(low, label, i) THEN ColonAt(low, SkipSpace(low, i + Len(label))) ELSE 0

\* GroupAfter behind a match that ends before position c, 0 for no match
GroupBehind(low, c, stops) == IF c = 0 THEN 0 ELSE GroupAfter(low, c, stops)

\* Where label\s*:\s*([^stops]+) matches with the label at position i of low
\* (the text as the pattern compares it): the position its group starts at,
\* 0 when it does not match there.
LabelGroupAt(low, label, i, stops) ==
    GroupBehind(low, LabelColonAt(low, label, i), stops)

\* the group ([^stops]+) that starts at position j of text, stripped; '' for
\* j = 0, no match
GroupText(text, j, stops) ==
    IF j = 0 THEN "" ELSE Strip(Slice(text, j, ScanTo(text, j, stops) - 1))

\* m.group(1).strip() of re.search(label\s*:\s*([^stops]+), text), or ''.
\* low is text as the pattern compares it (lower-cased under re.I).
SearchAfter(text, low, label, stops) ==
    GroupText(text,
              FirstNonZero([i \in 1..Len(low) |-> LabelGroupAt(low, label, i, stops)]),
              stops)

\* the two parts of name around position k, (name, '') for k = 0
SplitAt(name, k) ==
    IF k = 0 THEN <<name, "">> ELSE <<Slice(name, 1, k - 1), From(name, k + 1)>>

\* name.split(' ', 1) if ' ' in name else (name, '')
SplitName(name) == SplitAt(name, Find(name, " ", 1))


\* s.replace(a, '') for a one-character a
RemoveChar(s, a) == SelectRange(s, [i \in 1..Len(s) |-> At(s, i) # a], 1, Len(s))

(***************************************************************************)
(* normalize_phone_us_e164                                                 *)
(***************************************************************************)
\* \d+\s*$ matches at position d of low
DigitsToEnd(low, d) ==
    SkipDigits(low, d) > d /\ SkipSpace(low, SkipDigits(low, d)) > Len(low)

\* (?:ext|x|extension)[\s.:#-]*\d+\s*$ matches at position i of low
ExtensionAt(low, i) ==
    \E alt \in {"ext", "x", "extension"} :
        /\ StartsAt(low, alt, i)
        /\ DigitsToEnd(low, SkipChars(low, i + Len(alt), " \t\n\r.:#-"))

\* phone before the first match of the extension pattern in low
BeforeExtension(phone, low) ==
    CutAtFirst(phone, { i \in 1..Len(low) : ExtensionAt(low, i) })

\* no extension is looked for
StripExtensionNone(phone) == phone

\* re.sub(r'(?:ext|x|extension)[\s.:#-]*\d+\s*$', '', phone, flags=re.I)
StripExtension(phone) == BeforeExtension(phone, Lower(phone))

\* re.sub(r'\D', '', s)
DigitsOf(s) == SelectRange(s, [i \in 1..Len(s) |-> IsDigit(At(s, i))], 1, Len(s))

\* lines 30-33: the exit codes 001 and 01 go
WithoutExitCode(digits) ==
    IF Len(digits) = 13 /\ StartsAt(digits, "001", 1) THEN From(digits, 4)
    ELSE IF Len(digits) = 12 /\ StartsAt(digits, "01", 1) THEN From(digits, 3)
    ELSE digits

\* lines 34-40 without the search of line 37: ten digits, or eleven with a
\* leading 1, and nothing else
E164Strict(digits) ==
    IF Len(digits) = 11 /\ StartsAt(digits, "1", 1) THEN "+1" \o From(digits, 2)
    ELSE IF Len(digits) = 10 THEN "+1" \o digits
    ELSE ""

\* lines 34-40 with the first ten digits for every count but ten
E164FirstTen(digits) ==
    IF Len(digits) = 10 THEN "+1" \o digits
    ELSE IF Len(digits) >= 10 THEN "+1" \o Slice(digits, 1, 10)
    ELSE ""

\* lines 34-40
E164(digits) ==
    IF Len(digits) = 11 /\ StartsAt(digits, "1", 1) THEN "+1" \o From(digits, 2)
    ELSE IF Len(digits) = 10 THEN "+1" \o digits
    ELSE IF Len(digits) >= 10 THEN "+1" \o From(digits, Len(digits) - 9)
    ELSE ""

normalize_phone_us_e164(phone) ==
    IF phone = "" THEN ""
    ELSE E164(WithoutExitCode(DigitsOf(StripExtension(phone))))

(***************************************************************************)
(* Murphy Business (TEXT)                                                  *)
(***************************************************************************)
\* get_after of extract_murphy_text, extract_businessbroker_text and
\* extract_businessbroker_html
get_after(text, label) == SearchAfter(text, Lower(text), Lower(label), "\n\r")

MurphyFlat(text, stops) ==
    LET low == Lower(text)
        after(label) == SearchAfter(text, low, Lower(label), stops)
        name == SplitName(after("Name"))
    IN  [ first_name |-> name[1],
          last_name |-> name[2],
          email |-> after("Email"),
          phone |-> normalize_phone_us_e164(after("Phone")),
          ref_id |-> Or(after("Listing Number"), after("Listing ID")),
          listing_id |-> "",
          headline |-> "",
          contact_zip |-> after("ZIP/Postal Code"),
          investment_amount |-> "",
          purchase_timeline |-> "",
          comments |-> "",
          listing_url |-> "",
          services_interested_in |-> after("Services Interested In"),
          heard_about |-> Or(after("How did you hear about us?"),
                             after("How did you hear about us")) ]

extract_murphy_text(text_body) == MurphyFlat(RemoveChar(text_body, "\r"), "\n\r")


(***************************************************************************)
(* clean_comments_block                                                    *)
(***************************************************************************)
\* positions where a line of s starts ((?m)^)
IsLineStart(s, i) == i = 1 \/ (i >= 2 /\ i <= Len(s) + 1 /\ At(s, i - 1) = NL)

\* $ of (?m) matches at position q of s
LineEndsAt(s, q) == q > Len(s) \/ At(s, q) = NL

\* [-_]{3,}\s*$ matches at position d of s
DashesAt(s, d) ==
    /\ SkipChars(s, d, "-_") - d >= 3
    /\ LineEndsAt(s, SkipChars(s, SkipChars(s, d, "-_"), " \t\r"))

\* (?m)^\s*[-_]{3,}\s*$ matches from the line start at position i
SeparatorAt(s, i) == IsLineStart(s, i) /\ DashesAt(s, SkipSpace(s, i))

\* re.split(r'(?m)^\s*[-_]{3,}\s*$', raw_text)[0]
BeforeSeparator(s) == CutAtFirst(s, { i \in 1..Len(s) : SeparatorAt(s, i) })

\* \w of the re module
IsWord(c) == InChars(c, UpperAlpha \o LowerAlpha \o Digits \o "_")

\* \b at position i of s (between s[i-1] and s[i])
WordBoundary(s, i) ==
    (i >= 2 /\ IsWord(At(s, i - 1))) # (i <= Len(s) /\ IsWord(At(s, i)))

\* a.*b matches at position i of low (DOTALL)
Spanning(low, a, b, i) ==
    StartsAt(low, a, i) /\ Find(low, b, i + Len(a)) > 0

\* one of the three boilerplate patterns of lines 47-49 matches at position i
BoilerplateAt(low, n, i) ==
    /\ WordBoundary(low, i)
    /\ CASE n = 1 ->
              \/ StartsAt(low, "confidential notice", i)
              \/ StartsAt(low, "confidentiality notice", i)
              \/ Spanning(low, "this email", "confidential", i)
              \/ Spanning(low, "this e-mail", "confidential", i)
              \/ StartsAt(low, "intended only for the named recipient", i)
              \/ StartsAt(low, "do not disseminate", i)
              \/ Spanning(low, "if you have received this", "in error", i)
         [] n = 2 -> StartsAt(low, "terms of use and disclaimers apply", i)
         [] n = 3 -> StartsAt(low, "be aware! online banking fraud", i)

\* text before the first match of the n-th pattern in low
BeforeBoilerplate(text, low, n) ==
    CutAtFirst(text, { i \in 1..Len(low) : BoilerplateAt(low, n, i) })

\* no pattern is applied
KeepBoilerplate(text, n) == text

\* text = re.sub(p, '', text) for the n-th pattern: the match runs to the end
\* of the text, so the first match is the only one
CutBoilerplate(text, n) == BeforeBoilerplate(text, Lower(text), n)

\* a blank or tab at position i of s with a newline at the end of its run
BlankBeforeNewline(s, i) ==
    InChars(At(s, i), " \t") /\ At(s, SkipChars(s, i, " \t")) = NL

\* re.sub(r'[ \t]+\n', '\n', text): a blank or tab goes when a newline ends
\* the run of blanks and tabs it is in
TrimLineEnds(s) ==
    SelectRange(s, [i \in 1..Len(s) |-> ~BlankBeforeNewline(s, i)], 1, Len(s))

\* re.sub(r'\n{2,}', '\n', text): a newline that follows a newline goes
SqueezeNewlines(s) ==
    SelectRange(s, [i \in 1..Len(s) |-> ~(At(s, i) = NL /\ i > 1 /\ At(s, i - 1) = NL)],
                1, Len(s))

clean_comments_block(raw_text) ==
    IF raw_text = "" THEN ""
    ELSE Strip(SqueezeNewlines(TrimLineEnds(RemoveChar(
            CutBoilerplate(CutBoilerplate(CutBoilerplate(
                BeforeSeparator(raw_text), 1), 2), 3), "\r"))))

(***************************************************************************)
(* BusinessBroker.net (TEXT)                                               *)
(***************************************************************************)
\* for lab in labels: v = get_after(lab); if v: return v
RECURSIVE get_after_multi(_, _)
get_after_multi(text, labels) ==
    IF Len(labels) = 0 THEN ""
    ELSE Or(get_after(text, Head(labels)), get_after_multi(text, Tail(labels)))

\* \n[-_]{3,} matches at position q of s
DashedLineAt(s, q) ==
    q <= Len(s) /\ At(s, q) = NL /\ SkipChars(s, q + 1, "-_") >= q + 4

\* first position >= j where \n[-_]{3,} matches; Len(s)+1 (\Z) if none
CommentsEnd(s, j) == MinOf({Len(s) + 1} \cup { q \in j..Len(s) : DashedLineAt(s, q) })

\* the group (.*?) behind Comments\s*: that ends before position c, stripped;
\* '' for c = 0, no match
CommentsBehind(text, c) ==
    IF c = 0 THEN ""
    ELSE Strip(Slice(text, SkipSpace(text, c), CommentsEnd(text, SkipSpace(text, c)) - 1))

\* the group of the first match of the pattern in low
CommentsOf(text, low) ==
    CommentsBehind(text,
                   FirstNonZero([i \in 1..Len(low) |-> LabelColonAt(low, "comments", i)]))

\* re.search(r"Comments\s*:\s*(.*?)(?:\n[-_]{3,}|\Z)", text, I | S), stripped
BrokerComments(text) == CommentsOf(text, Lower(text))

\* the body shared by extract_businessbroker_text and extract_businessbroker_html
BusinessBrokerFlat(text) ==
    [ first_name |-> get_after(text, "First Name"),
      last_name |-> get_after(text, "Last Name"),
      email |-> get_after(text, "Email"),
      phone |-> normalize_phone_us_e164(get_after(text, "Phone")),
      ref_id |-> get_after(text, "Your Internal Listing Number"),
      listing_id |-> get_after(text, "BusinessBroker.net Listing Number"),
      headline |-> get_after(text, "Listing Header"),
      address |-> get_after_multi(text, <<"Address", "Address 1", "Address Line 1">>),
      city |-> get_after(text, "City"),
      state |-> get_after(text, "State"),
      country |-> get_after(text, "Country"),
      contact_zip |-> get_after_multi(text, <<"Zip", "ZIP", "Zip/Postal Code">>),
      investment_amount |-> "",
      purchase_timeline |-> "",
      comments |-> clean_comments_block(BrokerComments(text)),
      listing_url |-> "",
      services_interested_in |-> "",
      heard_about |-> "" ]

extract_businessbroker_text(text_body) == BusinessBrokerFlat(RemoveChar(text_body, "\r"))

(***************************************************************************)
(* Restaurants-For-Sale (TEXT), FranchiseResales (TEXT), LoopNet (TEXT)    *)
(***************************************************************************)
\* a newline at position k of low that a group character follows
GroupLineAt(low, k, dotall) ==
    At(low, k) = NL /\ k + 1 <= Len(low) /\ (dotall \/ At(low, k + 1) # NL)

\* Where label\s*\n(group) matches with the label at position i of low: the
\* position the group starts at (after the last newline of the white space
\* that a group character follows), or 0.  dotall: the group is (.+), else
\* ([^\n]+).
LineGroupAt(low, label, i, dotall) ==
    IF ~StartsAt(low, label, i) THEN 0
    ELSE MaxOf({0 - 1} \cup { k \in (i + Len(label))..(SkipSpace(low, i + Len(label)) - 1) :
                            GroupLineAt(low, k, dotall) }) + 1

\* m.group(1).strip() of re.search(label\s*\n(group), text, re.I), or ''
SearchLineAfter(text, label, dotall) ==
    The({ IF j = 0 THEN ""
          ELSE Strip(Slice(text, j, IF dotall THEN Len(text) ELSE ScanTo(text, j, NL) - 1)) :
          j \in { FirstNonZero(The({
                    [i \in 1..Len(low) |-> LineGroupAt(low, lab, i, dotall)] :
                    low \in {Lower(text)}, lab \in {Lower(label)} })) } })

AlnumHyphen == UpperAlpha \o LowerAlpha \o Digits \o "-"

\* Where label\s*([chars]+) (label\s+([chars]+) when spaced) matches with the
\* label at position i of low: the position the group starts at, or 0
TokenGroupAt(low, label, i, chars, spaced) ==
    IF ~StartsAt(low, label, i) THEN 0
    ELSE The({ IF /\ j <= Len(low)
                  /\ InChars(At(low, j), chars)
                  /\ (spaced => j > i + Len(label))
               THEN j
               ELSE 0 : j \in {SkipSpace(low, i + Len(label))} })

\* m.group(1) of re.search(label\s*([chars]+), text, re.I), or ''
SearchToken(text, label, chars, spaced) ==
    The({ IF j = 0 THEN "" ELSE Slice(text, j, SkipChars(text, j, chars) - 1) :
          j \in { FirstNonZero(The({
                    [i \in 1..Len(low) |-> TokenGroupAt(low, lab, i, chars, spaced)] :
                    low \in {Lower(text)}, lab \in {Lower(label)} })) } })

\* the body shared by extract_restaurantsforsale_text and _html
RestaurantsFlat(txt) ==
    LET name == SplitName(SearchLineAfter(txt, "Name", FALSE))
        msg == SearchLineAfter(txt, "Message", TRUE)
    IN  [ first_name |-> name[1],
          last_name |-> name[2],
          email |-> SearchLineAfter(txt, "Email", FALSE),
          phone |-> normalize_phone_us_e164(SearchLineAfter(txt, "Phone Number", FALSE)),
          ref_id |-> SearchToken(msg, "regarding", AlnumHyphen, TRUE),
          listing_id |-> "",
          headline |-> "",
          address |-> "",
          city |-> "",
          state |-> "",
          country |-> "",
          contact_zip |-> "",
          investment_amount |-> "",
          purchase_timeline |-> "",
          comments |-> msg,
          listing_url |-> "",
          services_interested_in |-> "",
          heard_about |-> "" ]

extract_restaurantsforsale_text(text_body) ==
    RestaurantsFlat(Strip(RemoveChar(text_body, "\r")))

(***************************************************************************)
(* FranchiseResales.com (TEXT)                                             *)
(***************************************************************************)
\* where https?://\S+ matches at position j of low: the position after it, or 0
UrlAt(low, j) ==
    The({ IF k > 0 /\ k <= Len(low) /\ ~IsSpace(At(low, k))
          THEN ScanTo(low, k, " \t\n\r")
          ELSE 0 :
          k \in { IF StartsAt(low, "http://", j) THEN j + 7
                  ELSE IF StartsAt(low, "https://", j) THEN j + 8
                  ELSE 0 } })

\* where URL:\s*(https?://\S+) matches with the label at position i of low:
\* the position the group starts at, or 0
UrlLabelAt(low, i) ==
    IF StartsAt(low, "url:", i) /\ UrlAt(low, SkipSpace(low, i + 4)) > 0
    THEN SkipSpace(low, i + 4)
    ELSE 0

\* m.group(1) of re.search(r"URL:\s*(https?://\S+)", txt, re.I), or ''
SearchUrlLabel(txt) ==
    The({ The({ IF j = 0 THEN "" ELSE Slice(txt, j, UrlAt(low, j) - 1) :
                j \in { FirstNonZero([i \in 1..Len(low) |-> UrlLabelAt(low, i)]) } }) :
          low \in {Lower(txt)} })

\* where lab\s*([^\n]+) matches with lab at position i of low: the position
\* the group starts at, or 0
ColonGroupAt(low, lab, i) ==
    IF StartsAt(low, lab, i) THEN GroupAfter(low, i + Len(lab), NL) ELSE 0

\* get_after of extract_franchiseresales_text: label:\s*([^\n]+), re.I
SearchAfterColon(txt, label) ==
    GroupText(txt,
              FirstNonZero(The({ [i \in 1..Len(low) |-> ColonGroupAt(low, lab, i)] :
                                 low \in {Lower(txt)}, lab \in {Lower(label) \o ":"} })),
              NL)

extract_franchiseresales_text(text_body) ==
    LET txt == Strip(RemoveChar(text_body, "\r"))
        name == SplitName(SearchAfterColon(txt, "Contact Name"))
    IN  [ first_name |-> name[1],
          last_name |-> name[2],
          email |-> SearchAfterColon(txt, "Contact E-mail"),
          phone |-> normalize_phone_us_e164(SearchAfterColon(txt, "Contact Phone")),
          ref_id |-> SearchToken(txt, "Internal Listing ID", AlnumHyphen, FALSE),
          listing_id |-> "",
          headline |-> SearchLineAfter(txt, "in reference to the following listing:", FALSE),
          address |-> "",
          city |-> "",
          state |-> "",
          country |-> "",
          contact_zip |-> "",
          investment_amount |-> "",
          purchase_timeline |-> "",
          comments |-> SearchAfterColon(txt, "Contact Message"),
          listing_url |-> SearchUrlLabel(txt),
          services_interested_in |-> "",
          heard_about |-> "" ]

(***************************************************************************)
(* LoopNet (TEXT)                                                          *)
(***************************************************************************)
\* ([0-9]+)\) matches at position d of low: <<start, end>> of the digits, or
\* <<0, 0>>
IdDigitsAt(low, d) ==
    The({ IF e > d /\ At(low, e) = ")" THEN <<d, e - 1>> ELSE <<0, 0>> :
          e \in {SkipDigits(low, d)} })

\* \(Listing ID\s*:\s*([0-9]+)\) matches at position i of low: <<start, end>>
\* of the digits, or <<0, 0>>
ListingIdAt(low, i) ==
    IF ~StartsAt(low, "(listing id", i) THEN <<0, 0>>
    ELSE The({ IF At(low, c) = ":" THEN IdDigitsAt(low, SkipSpace(low, c + 1))
               ELSE <<0, 0>> :
               c \in {SkipSpace(low, i + 11)} })

\* the three pipes p1, p2, p3 let the From: line match, its first group
\* starting at position g1 of low
PipesMatch(low, g1, p1, p2, p3) ==
    /\ At(low, p1) = "|" /\ At(low, p2) = "|" /\ At(low, p3) = "|"
    /\ p1 > g1 /\ \A k \in g1..(p1 - 1) : At(low, k) # NL
    /\ p2 > p1 + 1 /\ \A k \in SkipSpace(low, p1 + 1)..(p2 - 1) : At(low, k) # NL
    /\ SkipSpace(low, p1 + 1) < p2
    /\ p3 > p2 + 1 /\ \A k \in (p2 + 1)..(p3 - 1) : At(low, k) # "|"
    /\ ListingIdAt(low, SkipSpace(low, p3 + 1))[1] > 0

\* the triple with the least first, then the least second, pipe; <<0, 0, 0>>
\* for no triple
LeastPipes(all) ==
    IF all = {} THEN <<0, 0, 0>>
    ELSE CHOOSE t \in all : \A u \in all : t[1] < u[1] \/ (t[1] = u[1] /\ t[2] <= u[2])

\* The From: line of extract_loopnet_text,
\*   From:\s*(.+?)\|\s*(.+?)\|\s*([^\|]+?)\|\s*\(Listing ID\s*:\s*([0-9]+)\)
\* with the label at position i of low: p1, p2, p3 are the three pipes; the
\* lazy groups take the first pipes that let the rest match.
LoopnetPipes(low, i) ==
    IF ~StartsAt(low, "from:", i) THEN <<0, 0, 0>>
    ELSE LeastPipes(The({
            { t \in (1..Len(low)) \X (1..Len(low)) \X (1..Len(low)) :
                PipesMatch(low, g1, t[1], t[2], t[3]) } :
            g1 \in {SkipSpace(low, i + 5)} }))

\* lines 1238-1269: the record of the four groups
LoopnetFlat(full_name, phone_raw, email, ref_id) ==
    [ first_name |-> SplitName(full_name)[1],
      last_name |-> SplitName(full_name)[2],
      email |-> email,
      phone |-> normalize_phone_us_e164(phone_raw),
      ref_id |-> ref_id,
      listing_id |-> "",
      headline |-> "",
      address |-> "",
      city |-> "",
      state |-> "",
      country |-> "",
      contact_zip |-> "",
      investment_amount |-> "",
      purchase_timeline |-> "",
      comments |-> "",
      listing_url |-> "",
      services_interested_in |-> "",
      heard_about |-> "" ]

\* the groups of the match with the label at position i of low and the
\* pipes p
LoopnetGroups(txt, low, i, p) ==
    LoopnetFlat(Strip(Slice(txt, SkipSpace(low, i + 5), p[1] - 1)),
                Strip(Slice(txt, p[1] + 1, p[2] - 1)),
                Strip(Slice(txt, p[2] + 1, p[3] - 1)),
                The({ Slice(txt, id[1], id[2]) :
                      id \in {ListingIdAt(low, SkipSpace(low, p[3] + 1))} }))

\* the record of the first match of the From: line in low
LoopnetMatch(txt, low) ==
    The({ IF i = 0 THEN LoopnetFlat("", "", "", "")
          ELSE LoopnetGroups(txt, low, i, LoopnetPipes(low, i)) :
          i \in { First({ k \in 1..Len(low) : LoopnetPipes(low, k)[1] > 0 }) } })

extract_loopnet_text(text_body) ==
    The({ LoopnetMatch(txt, Lower(txt)) : txt \in {Strip(RemoveChar(text_body, "\r"))} })

(***************************************************************************)
(* Scans shared by the DealStream, BizBuySell and FCBB extractors.         *)
(***************************************************************************)
Alnum == UpperAlpha \o LowerAlpha \o Digits

Alpha == UpperAlpha \o LowerAlpha

\* [A-Za-z0-9._%+\-]
EmailLocal == Alnum \o "._%+-"

\* [A-Za-z0-9.\-]
EmailDomain == Alnum \o ".-"

\* the first i with ends[i] # 0, and ends[i] - 1: the <<start, end>> of the
\* first match of a pattern whose match from i ends before ends[i];
\* <<0, 0>> for no match
FirstSpan(ends) ==
    The({ IF i = 0 THEN <<0, 0>> ELSE <<i, ends[i] - 1>> :
          i \in { First({ k \in DOMAIN ends : ends[k] # 0 }) } })

\* the first value of g, a function from positions to pairs, whose first
\* component is not 0; <<0, 0>> if none
FirstFound(g) ==
    The({ IF i = 0 THEN <<0, 0>> ELSE g[i] :
          i \in { First({ k \in DOMAIN g : g[k][1] # 0 }) } })

\* the text of the span m of s, '' for <<0, 0>>
Span(s, m) == IF m[1] = 0 THEN "" ELSE Slice(s, m[1], m[2])

\* the dots of the e-mail domain s[a .. de-1] that two letters follow
DomainDots(s, a, de) ==
    { k \in (a + 1)..(de - 3) :
        At(s, k) = "." /\ IsAlpha(At(s, k + 1)) /\ IsAlpha(At(s, k + 2)) }

\* Where [A-Za-z0-9._%+\-]+@[A-Za-z0-9.\-]+\.[A-Za-z]{2,} matches from
\* position i of s: the position after the match, or 0.  The greedy domain
\* gives back to the last dot that two letters follow.
EmailAt(s, i) ==
    IF i < 1 \/ i > Len(s) \/ ~InChars(At(s, i), EmailLocal) THEN 0
    ELSE The({ IF At(s, a) # "@" THEN 0
               ELSE The({ IF dots = {} THEN 0 ELSE SkipChars(s, MaxOf(dots) + 1, Alpha) :
                          dots \in { DomainDots(s, a + 1, SkipChars(s, a + 1, EmailDomain)) } }) :
               a \in {SkipChars(s, i, EmailLocal)} })

\* m.group(0) of re.search of the e-mail pattern in s, or ''; behind: the
\* pattern starts with (?<!/)
SearchEmail(s, behind) ==
    Span(s, FirstSpan([i \in 1..Len(s) |->
                          IF behind /\ i > 1 /\ At(s, i - 1) = "/" THEN 0 ELSE EmailAt(s, i)]))

\* [\s\-.]
PhoneSep == " \t\n\r-."

\* n digits stand at position j of s
DigitsAt(s, j, n) == j >= 1 /\ SkipDigits(s, j) >= j + n /\ j + n - 1 <= Len(s)

\* an optional character of chars at position j: the position after it
Optional(s, j, chars) ==
    IF j >= 1 /\ j <= Len(s) /\ InChars(At(s, j), chars) THEN j + 1 ELSE j

\* Where \d{3}[\s\-.]?\d{4} matches from position c: the position after the
\* match, or 0
PhoneLocal(s, c) ==
    The({ IF DigitsAt(s, c, 3) /\ DigitsAt(s, d, 4) THEN d + 4 ELSE 0 :
          d \in {Optional(s, c + 3, PhoneSep)} })

\* Where \(?\d{3}\)?[\s\-.]?\d{3}[\s\-.]?\d{4} matches from position j: the
\* position after the match, or 0
PhoneRest(s, j) ==
    The({ IF j >= 1 /\ DigitsAt(s, a, 3)
          THEN PhoneLocal(s, Optional(s, Optional(s, a + 3, ")"), PhoneSep))
          ELSE 0 :
          a \in {Optional(s, j, "(")} })

\* Where (\+?1[\s\-.]?) matches from position i: the position after it, or 0
PhoneOne(s, i) ==
    The({ IF one <= Len(s) /\ At(s, one) = "1" THEN Optional(s, one + 1, PhoneSep) ELSE 0 :
          one \in {Optional(s, i, "+")} })

\* Where (\+?1[\s\-.]?)?\(?\d{3}\)?[\s\-.]?\d{3}[\s\-.]?\d{4} matches from
\* position i: the position after the match, or 0.  The optional group is
\* tried first.
PhoneAt(s, i) ==
    IF i < 1 \/ i > Len(s) THEN 0
    ELSE The({ IF e > 0 THEN e ELSE PhoneRest(s, i) :
               e \in {PhoneRest(s, PhoneOne(s, i))} })

\* m.group(0) of re.search of the phone pattern in s, or ''
SearchPhone(s) == Span(s, FirstSpan([i \in 1..Len(s) |-> PhoneAt(s, i)]))

(***************************************************************************)
(* DealStream (TEXT)                                                       *)
(***************************************************************************)
\* [A-Za-z' .-]
NameChars == Alpha \o "' .-"

\* the group of BrokerNameAt runs from g to e - 1: <<g, e - 1>> when
\* \s*\n\s*Broker follows it, or <<0, 0>>
BrokerAfter(low, g, e) ==
    The({ IF /\ e > g + 1
             /\ \E k \in e..(w - 1) : At(low, k) = NL
             /\ StartsAt(low, "broker", w)
          THEN <<g, e - 1>>
          ELSE <<0, 0>> :
          w \in {SkipSpace(low, e)} })

\* Where \n\s*([A-Z][A-Za-z' .-]+)\s*\n\s*Broker (re.I) matches with its
\* newline at position p of low: <<start, end>> of the group, or <<0, 0>>
BrokerNameAt(low, p) ==
    IF p > Len(low) \/ At(low, p) # NL THEN <<0, 0>>
    ELSE The({ IF g <= Len(low) /\ IsAlpha(At(low, g))
               THEN BrokerAfter(low, g, SkipChars(low, g + 1, NameChars))
               ELSE <<0, 0>> :
               g \in {SkipSpace(low, p + 1)} })

\* m_name.group(1).strip() of the search in text, or ''
BrokerName(text) ==
    Strip(Span(text, FirstFound(The({ [p \in 1..Len(low) |-> BrokerNameAt(low, p)] :
                                      low \in {Lower(text)} }))))

\* lines 250-262 and 199-212
LeadName(txt) ==
    Or(The({ IF h = 0 THEN ""
             ELSE BrokerName(From(txt, h + Len("here is their information"))) :
             h \in {Find(Lower(txt), "here is their information", 1)} }),
       BrokerName(txt))

\* re.sub(r"\b(Broker|Agent|Owner).*$", "", lead_name, flags=re.I).strip();
\* lead_name holds no newline
CutRole(lead_name) ==
    Strip(CutAtFirst(lead_name,
                     The({ { i \in 1..Len(low) :
                               /\ WordBoundary(low, i)
                               /\ \E r \in {"broker", "agent", "owner"} : StartsAt(low, r, i) } :
                           low \in {Lower(lead_name)} })))

\* parts = s.split(None, 1); (parts[0] if parts else "", parts[1] if len(parts) > 1 else "")
SplitFirst(s) ==
    The({ IF a > Len(s) THEN <<"", "">>
          ELSE The({ <<Slice(s, a, b - 1), From(s, SkipSpace(s, b))>> :
                     b \in {ScanTo(s, a, WhiteSpace)} }) :
          a \in {SkipSpace(s, 1)} })

\* m_ref.group(1) of re.search(r"Reference Number:\s*([0-9]+)", text, re.I), or ''
ReferenceNumber(text) == SearchToken(text, "Reference Number:", Digits, FALSE)

\* a DealStream record that leaves the headline out
DealstreamFlatNoHeadline(text, lead_name) ==
    The({ [ source |-> "dealstream",
            first_name |-> parts[1],
            last_name |-> parts[2],
            email |-> Strip(SearchEmail(text, FALSE)),
            phone |-> IF phone = "" THEN "" ELSE normalize_phone_us_e164(phone),
            ref_id |-> ReferenceNumber(text),
            listing_url |-> "" ] :
          parts \in {SplitFirst(lead_name)}, phone \in {SearchPhone(text)} })

\* the flat record both DealStream extractors return
DealstreamFlat(text, lead_name) ==
    The({ [ source |-> "dealstream",
            first_name |-> parts[1],
            last_name |-> parts[2],
            email |-> Strip(SearchEmail(text, FALSE)),
            phone |-> IF phone = "" THEN "" ELSE normalize_phone_us_e164(phone),
            ref_id |-> ReferenceNumber(text),
            headline |-> "",
            listing_url |-> "" ] :
          parts \in {SplitFirst(lead_name)}, phone \in {SearchPhone(text)} })

extract_dealstream_text(text_body) ==
    The({ DealstreamFlat(txt, CutRole(LeadName(txt))) : txt \in {RemoveChar(text_body, "\r")} })

(***************************************************************************)
(* BizBuySell (TEXT)                                                       *)
(***************************************************************************)
\* s.split()
RECURSIVE SplitWords(_)
SplitWords(s) ==
    The({ IF a > Len(s) THEN <<>>
          ELSE The({ <<Slice(s, a, b - 1)>> \o SplitWords(From(s, b)) :
                     b \in {ScanTo(s, a, WhiteSpace)} }) :
          a \in {SkipSpace(s, 1)} })

\* labels of extract_bizbuysell_text
BizLabels ==
    << "Contact Name", "Contact Email", "Contact Phone", "Contact Zip",
       "Able to Invest", "Purchase Within", "Comments", "Listing ID", "Ref ID" >>

\* l.split() of the labels, lower-cased as re.IGNORECASE compares them
BizLabelWords == [n \in 1..Len(BizLabels) |-> SplitWords(Lower(BizLabels[n]))]

\* the words of a label, joined by \s*, match from position i of low: the
\* position after the last word, or 0
RECURSIVE WordsAt(_, _, _)
WordsAt(low, i, words) ==
    IF ~StartsAt(low, Head(words), i) THEN 0
    ELSE IF Len(words) = 1 THEN i + Len(words[1])
    ELSE WordsAt(low, SkipSpace(low, i + Len(words[1])), Tail(words))

\* label_to_re(label) matches at position i of low: the position after the
\* colon, or 0
BizLabelAt(low, i, label) ==
    IF ~WordBoundary(low, i) THEN 0
    ELSE The({ IF e > 0 /\ At(low, SkipSpace(low, e)) = ":" THEN SkipSpace(low, e) + 1 ELSE 0 :
               e \in { WordsAt(low, i, BizLabelWords[CHOOSE n \in 1..Len(BizLabels) :
                                                        BizLabels[n] = label]) } })

\* the start positions of `matches`
BizMatches(low) ==
    { i \in 1..Len(low) : \E n \in 1..Len(BizLabels) : BizLabelAt(low, i, BizLabels[n]) > 0 }

\* the value after the last occurrence of the label, up to the end of its
\* line whatever label stands there
BizFieldToLineEnd(txt, low, all, label) ==
    The({ IF occ = {} THEN ""
          ELSE Strip(Slice(txt, BizLabelAt(low, MaxOf(occ), label),
                           ScanTo(txt, BizLabelAt(low, MaxOf(occ), label), NL) - 1)) :
          occ \in { { i \in all : BizLabelAt(low, i, label) > 0 } } })

\* fields.get(label, "") for the matches all: the value after the last
\* occurrence of the label, up to the next label of any kind
BizFieldOf(txt, low, all, label) ==
    The({ IF occ = {} THEN ""
          ELSE Strip(Slice(txt, BizLabelAt(low, MaxOf(occ), label),
                           MinOf({Len(txt) + 1} \cup { m \in all : m > MaxOf(occ) }) - 1)) :
          occ \in { { i \in all : BizLabelAt(low, i, label) > 0 } } })

\* fields.get(label, "")
BizField(txt, label) ==
    The({ BizFieldOf(txt, low, BizMatches(low), label) : low \in {Lower(txt)} })

\* Inquirer.?s Information matches at position i of low: the position after it, or 0
InquirerAt(low, i) ==
    IF ~StartsAt(low, "inquirer", i) THEN 0
    ELSE IF i + 8 <= Len(low) /\ At(low, i + 8) # NL /\ StartsAt(low, "s information", i + 9)
    THEN i + 22
    ELSE IF StartsAt(low, "s information", i + 8) THEN i + 21
    ELSE 0

\* re.sub(r'Inquirer.?s Information', '', val, flags=re.IGNORECASE).strip()
CutInquirer(val) ==
    Strip(SelectRange(val,
                      The({ [k \in 1..Len(low) |-> ~\E i \in 1..k : InquirerAt(low, i) > k] :
                            low \in {Lower(val)} }),
                      1, Len(val)))

\* the group of BizHeadline starts at position g of low
BizHeadlineFrom(txt, low, g) ==
    Strip(Span(txt, The({ IF e = 0 THEN <<0, 0>> ELSE <<g, e - 1>> :
                          e \in { First({ k \in g..(Len(low) + 1) :
                                            StartsAt(low, "listing id", SkipSpace(low, k)) }) } })))

\* h_match.group(1).strip() of lines 388-390, or ''
BizHeadline(txt) ==
    The({ The({ IF h = 0 THEN ""
                ELSE BizHeadlineFrom(txt, low, SkipSpace(low, h + Len("regarding your listing:"))) :
                h \in {Find(low, "regarding your listing:", 1)} }) :
          low \in {Lower(txt)} })

\* \[https?://[^\]]+\] with its text from position k of s: the position of
\* its ], or 0
BracketEnd(s, k) ==
    The({ IF k > 0 /\ e > k /\ e <= Len(s) THEN e ELSE 0 : e \in {ScanTo(s, k, "]")} })

\* \[https?://[^\]]+\] matches at position i of s: the position of its ], or 0
BracketUrlAt(s, i) ==
    BracketEnd(s, IF StartsAt(s, "[http://", i) THEN i + 8
                  ELSE IF StartsAt(s, "[https://", i) THEN i + 9
                  ELSE 0)

\* re.sub(r'\[https?://[^\]]+\]', '', s)
CutBracketUrls(s) ==
    SelectRange(s, [k \in 1..Len(s) |-> ~\E i \in 1..k : BracketUrlAt(s, i) >= k], 1, Len(s))

footer_markers ==
    { "you can reply directly to this email", "we take our lead quality",
      "unsubscribe", "email preferences", "terms of use", "privacy notice",
      "contact us", "this system email was sent to you by bizbuysell" }

\* \b(?:markers)\b matches at position i of low
FooterAt(low, i) ==
    /\ WordBoundary(low, i)
    /\ \/ \E m \in footer_markers :
             StartsAt(low, m, i) /\ WordBoundary(low, i + Len(m))
       \/ /\ StartsAt(low, "thank you,", i)
          /\ StartsAt(low, "bizbuysell", SkipSpace(low, i + 10))
          /\ WordBoundary(low, SkipSpace(low, i + 10) + 10)

_trim_bizbuysell_footer(s0) ==
    IF s0 = "" THEN ""
    ELSE The({ Strip(CutAtFirst(s, The({ { i \in 1..Len(low) : FooterAt(low, i) } :
                                         low \in {Lower(s)} }))) :
               s \in {CutBracketUrls(s0)} })

\* m.group(0) of re.search(r'\d+', s), or ''
FirstNumber(s) ==
    The({ IF a > Len(s) THEN "" ELSE Slice(s, a, SkipDigits(s, a) - 1) :
          a \in {ScanTo(s, 1, Digits)} })

\* lines 407-421: the value of the e-mail field
BizEmail(email_raw) ==
    The({ IF m # "" THEN m
          ELSE IF email_raw # "" THEN SplitWords(email_raw)[1]
          ELSE "" :
          m \in {SearchEmail(email_raw, TRUE)} })

\* the record of extract_bizbuysell_text, of the matches all of low
BizFlat(txt, low, all) ==
    The({ [ first_name |-> name[1],
            last_name |-> name[2],
            email |-> BizEmail(BizFieldOf(txt, low, all, "Contact Email")),
            phone |-> normalize_phone_us_e164(Or(SearchPhone(phone_block), phone_block)),
            ref_id |-> CutInquirer(BizFieldOf(txt, low, all, "Ref ID")),
            listing_id |-> Or(FirstNumber(listing_id_raw), listing_id_raw),
            headline |-> BizHeadline(txt),
            contact_zip |-> BizFieldOf(txt, low, all, "Contact Zip"),
            investment_amount |-> BizFieldOf(txt, low, all, "Able to Invest"),
            purchase_timeline |-> BizFieldOf(txt, low, all, "Purchase Within"),
            comments |-> clean_comments_block(
                            _trim_bizbuysell_footer(BizFieldOf(txt, low, all, "Comments"))),
            listing_url |-> "",
            services_interested_in |-> "",
            heard_about |-> "" ] :
          name \in {SplitName(BizFieldOf(txt, low, all, "Contact Name"))},
          phone_block \in {BizFieldOf(txt, low, all, "Contact Phone")},
          listing_id_raw \in {BizFieldOf(txt, low, all, "Listing ID")} })

extract_bizbuysell_text(text_body) ==
    The({ The({ BizFlat(txt, low, BizMatches(low)) : low \in {Lower(txt)} }) :
          txt \in {RemoveChar(text_body, "\r")} })

(***************************************************************************)
(* parse_address_loose                                                     *)
(***************************************************************************)
\* re.sub(r'\s+', ' ', s)
NormalizeSpace(s) ==
    Concat([k \in 1..Len(s) |->
               IF ~IsSpace(At(s, k)) THEN At(s, k)
               ELSE IF k > 1 /\ IsSpace(At(s, k - 1)) THEN ""
               ELSE " "],
           1, Len(s))

\* re.split(r'[;,]', s)
RECURSIVE SplitOn(_, _)
SplitOn(s, seps) ==
    The({ IF k > Len(s) THEN <<s>> ELSE <<Slice(s, 1, k - 1)>> \o SplitOn(From(s, k + 1), seps) :
          k \in {ScanTo(s, 1, seps)} })

\* [p.strip() for p in parts if p.strip()]
RECURSIVE NonEmptyStrips(_)
NonEmptyStrips(parts) ==
    IF parts = <<>> THEN <<>>
    ELSE The({ (IF p = "" THEN <<>> ELSE <<p>>) \o NonEmptyStrips(Tail(parts)) :
               p \in {Strip(Head(parts))} })

\* [p.strip() for p in re.split(r'[;,]', s) if p.strip()]
StrippedParts(s) == NonEmptyStrips(SplitOn(s, ";,"))

\* ", ".join(parts)
RECURSIVE JoinComma(_)
JoinComma(parts) ==
    IF Len(parts) = 0 THEN ""
    ELSE IF Len(parts) = 1 THEN parts[1]
    ELSE parts[1] \o ", " \o JoinComma(Tail(parts))

\* ", ".join(parts[:-1]) if len(parts) > 1 else ""
AllButLast(parts) ==
    IF Len(parts) > 1 THEN JoinComma(Slice(parts, 1, Len(parts) - 1)) ELSE ""

\* parts[-1] if parts else ""
LastOf(parts) == IF Len(parts) = 0 THEN "" ELSE parts[Len(parts)]

\* country_map, in order; \s+ stands between the words of a name
country_map ==
    << <<{"united kingdom", "uk"}, "United Kingdom">>,
       <<{"united states", "usa", "us"}, "United States">>,
       <<{"canada"}, "Canada">>,
       <<{"england", "scotland", "wales", "northern ireland"}, "United Kingdom">> >>

\* where \b(names)\b\.?$ matches in tail: the least start, or 0
CountryAt(tail, names) ==
    First({ i \in 1..Len(tail) :
              /\ WordBoundary(tail, i)
              /\ \E w \in names :
                    \/ From(tail, i) = w
                    \/ From(tail, i) = w \o "." })

\* the first entry of country_map that matches tail, or 0
CountryEntry(tail) ==
    First({ n \in 1..Len(country_map) : CountryAt(tail, country_map[n][1]) > 0 })

\* \b\d{5}(?:-\d{4})?\b matches at position i of s: the position after it, or 0
UsZipAt(s, i) ==
    IF ~(WordBoundary(s, i) /\ DigitsAt(s, i, 5)) THEN 0
    ELSE IF StartsAt(s, "-", i + 5) /\ DigitsAt(s, i + 6, 4) /\ WordBoundary(s, i + 10)
    THEN i + 10
    ELSE IF WordBoundary(s, i + 5) THEN i + 5
    ELSE 0

us_states ==
    { "AL", "AK", "AZ", "AR", "CA", "CO", "CT", "DE", "DC", "FL", "GA", "HI", "ID",
      "IL", "IN", "IA", "KS", "KY", "LA", "ME", "MD", "MA", "MI", "MN", "MS", "MO",
      "MT", "NC", "ND", "NE", "NH", "NJ", "NM", "NV", "NY", "OH", "OK", "OR", "PA",
      "RI", "SC", "SD", "TN", "TX", "UT", "VA", "VT", "WA", "WI", "WV", "WY" }

\* us_state_re matches at position i of s
UsStateAt(s, i) ==
    /\ i + 1 <= Len(s)
    /\ WordBoundary(s, i)
    /\ Upper(Slice(s, i, i + 1)) \in us_states
    /\ WordBoundary(s, i + 2)

\* [ABCEGHJ-NPRSTVXY] and [ABCEGHJ-NPRSTV-Z], under re.I
CaFirst == "ABCEGHJKLMNPRSTVXY"

CaOther == "ABCEGHJKLMNPRSTVWXYZ"

\* ca_postal_re matches at position i of s: the position after it, or 0
CaPostalAt(s, i) ==
    The({ IF /\ j + 2 <= Len(s)
             /\ WordBoundary(s, i)
             /\ InChars(UpperChar(At(s, i)), CaFirst)
             /\ IsDigit(At(s, i + 1))
             /\ InChars(UpperChar(At(s, i + 2)), CaOther)
             /\ IsDigit(At(s, j))
             /\ InChars(UpperChar(At(s, j + 1)), CaOther)
             /\ IsDigit(At(s, j + 2))
             /\ WordBoundary(s, j + 3)
          THEN j + 3
          ELSE 0 :
          j \in {Optional(s, i + 3, WhiteSpace)} })

\* (\d[A-Z]{2})\b matches at position g of s
UkInward(s, g) ==
    /\ g + 2 <= Len(s)
    /\ IsDigit(At(s, g)) /\ IsAlpha(At(s, g + 1)) /\ IsAlpha(At(s, g + 2))
    /\ WordBoundary(s, g + 3)

\* ([A-Z]{1,2}\d{1,2}[A-Z]?)\s*(\d[A-Z]{2})\b matches from position i of s
\* with the letters of its first group before d, the digits before o and
\* the optional letter before e
UkFits(s, i, d, o, e) ==
    /\ \A k \in i..(d - 1) : IsAlpha(At(s, k))
    /\ \A k \in d..(o - 1) : IsDigit(At(s, k))
    /\ \A k \in o..(e - 1) : IsAlpha(At(s, k))
    /\ UkInward(s, SkipSpace(s, e))

\* The ways ([A-Z]{1,2}\d{1,2}[A-Z]?)\s*(\d[A-Z]{2})\b can match from position
\* i of s: <<letters, digits, optional letter>> counts of the first group
UkShapes(s, i) ==
    { t \in {1, 2} \X {1, 2} \X {0, 1} :
        UkFits(s, i, i + t[1], i + t[1] + t[2], i + t[1] + t[2] + t[3]) }

\* the shape the greedy quantifiers settle on
UkGreedy(shapes) ==
    CHOOSE t \in shapes :
        \A u \in shapes :
            \/ t[1] > u[1]
            \/ t[1] = u[1] /\ t[2] > u[2]
            \/ t[1] = u[1] /\ t[2] = u[2] /\ t[3] >= u[3]

\* uk_postal_re matches at position i of s
UkPostalAt(s, i) == WordBoundary(s, i) /\ UkShapes(s, i) # {}

\* m_uk.group(1).upper() + " " + m_uk.group(2).upper(), the first group
\* ending before e
UkZipTo(s, i, e) ==
    Upper(Slice(s, i, e - 1)) \o " "
        \o The({ Upper(Slice(s, g, g + 2)) : g \in {SkipSpace(s, e)} })

\* the zip_code of the match of uk_postal_re at position i of s
UkZip(s, i) ==
    The({ UkZipTo(s, i, i + t[1] + t[2] + t[3]) : t \in {UkGreedy(UkShapes(s, i))} })

Address(address1, city, state, zip, country) ==
    [address1 |-> address1, city |-> city, state |-> state, zip |-> zip, country |-> country]

\* before_parts, bparts: the parts of s before position start
BeforeParts(s, start) == StrippedParts(StripChars(Slice(s, 1, start - 1), " ,."))

\* lines 115-135: uk_postal_re matches first at position start of s
UkAddress(s, start, bparts, country) ==
    Address(AllButLast(bparts), LastOf(bparts), "", UkZip(s, start),
            Or(country, "United Kingdom"))

\* <<city, state>> of lines 144-160; states: where us_state_re matches in last
UsCityState(bparts, last, states) ==
    IF states = {} THEN <<last, "">>
    ELSE << Or(StripChars(Slice(last, 1, MinOf(states) - 1), " ,"),
               IF Len(bparts) >= 2 THEN bparts[Len(bparts) - 1] ELSE ""),
            Upper(Slice(last, MinOf(states), MinOf(states) + 1)) >>

\* lines 137-168: us_zip_re matches first at position start of s
UsAddress(s, start, bparts, country) ==
    The({ Address(AllButLast(bparts), cs[1], cs[2],
                  Slice(s, start, UsZipAt(s, start) - 1),
                  Or(country, "United States")) :
          cs \in { The({ UsCityState(bparts, last,
                                     { i \in 1..Len(last) : UsStateAt(last, i) }) :
                         last \in {LastOf(bparts)} }) } })

\* lines 170-186: ca_postal_re matches first at position start of s
CaAddress(s, start, bparts, country) ==
    Address(AllButLast(bparts), LastOf(bparts), "",
            Upper(Slice(s, start, CaPostalAt(s, start) - 1)),
            Or(country, "Canada"))

\* lines 105-189, for s with the country cut from its end
AddressOf(s, country) ==
    The({ IF uk # 0 THEN UkAddress(s, uk, BeforeParts(s, uk), country)
          ELSE The({
            IF us # 0 THEN UsAddress(s, us, BeforeParts(s, us), country)
            ELSE The({
              IF ca # 0 THEN CaAddress(s, ca, BeforeParts(s, ca), country)
              ELSE Address(s, "", "", "", country) :
              ca \in { First({ i \in 1..Len(s) : CaPostalAt(s, i) > 0 }) } }) :
            us \in { First({ i \in 1..Len(s) : UsZipAt(s, i) > 0 }) } }) :
          uk \in { First({ i \in 1..Len(s) : UkPostalAt(s, i) }) } })

\* a loop that finds the country and leaves it in the line
CountryKept(s0, tail, default_country) ==
    The({ IF n = 0 THEN <<s0, default_country>> ELSE <<s0, country_map[n][2]>> :
          n \in {CountryEntry(tail)} })

\* lines 89-103: <<s, country>> after the loop over country_map
CountryCut(s0, tail, default_country) ==
    The({ IF n = 0 THEN <<s0, default_country>>
          ELSE << StripChars(Slice(s0, 1, CountryAt(tail, country_map[n][1]) - 1), " ,."),
                  country_map[n][2] >> :
          n \in {CountryEntry(tail)} })

parse_address_loose(addr, default_country) ==
    IF addr = "" THEN Address("", "", "", "", default_country)
    ELSE The({ AddressOf(c[1], c[2]) :
               c \in { The({ CountryCut(s0, Lower(s0), default_country) :
                             s0 \in {StripChars(NormalizeSpace(Strip(addr)), " .")} }) } })

(***************************************************************************)
(* BusinessesForSale (TEXT)                                                *)
(***************************************************************************)
\* "\n".join(lines)
RECURSIVE JoinNewline(_)
JoinNewline(lines) ==
    IF Len(lines) = 0 THEN ""
    ELSE IF Len(lines) = 1 THEN lines[1]
    ELSE lines[1] \o NL \o JoinNewline(Tail(lines))

\* [line.strip() for line in s.split('\n') if line.strip()]
StrippedLines(s) == NonEmptyStrips(SplitOn(s, NL))

\* your\s+listing\s+ref\s*:\s*([A-Za-z0-9\-]+) matches at position i of low:
\* <<start, end>> of the group, or <<0, 0>>
ListingRefAt(low, i) ==
    IF ~StartsAt(low, "your", i) THEN <<0, 0>>
    ELSE The({ The({ The({ The({ The({
            IF /\ a > i + 4 /\ StartsAt(low, "listing", a)
               /\ b > a + 7 /\ StartsAt(low, "ref", b)
               /\ At(low, c) = ":"
               /\ e > g
            THEN <<g, e - 1>>
            ELSE <<0, 0>> :
            e \in {SkipChars(low, g, AlnumHyphen)} }) :
            g \in {SkipSpace(low, c + 1)} }) :
            c \in {SkipSpace(low, b + 3)} }) :
            b \in {SkipSpace(low, a + 7)} }) :
            a \in {SkipSpace(low, i + 4)} })

\* where \s*\n(https?://\S+) matches from position e2 of low: the position
\* of the URL, after the last newline of the white space that a URL
\* follows, or 0
UrlLineAt(low, e2) ==
    MaxOf({0 - 1} \cup { n \in e2..(SkipSpace(low, e2) - 1) :
                            At(low, n) = NL /\ UrlAt(low, n + 1) > 0 }) + 1

\* The block pattern of lines 503-506 matches with the reference group
\* <<g, e>>: <<start of the headline, position after it, start of the URL>>,
\* or <<0, 0, 0>>.  The lazy headline ends at the first place from which
\* white space, a newline and a URL follow.
BlockAt(low, ref) ==
    IF ref[1] = 0 THEN <<0, 0, 0>>
    ELSE The({ IF w = ref[2] + 1 THEN <<0, 0, 0>>
               ELSE The({ IF e2 = 0 THEN <<0, 0, 0>> ELSE <<w, e2, UrlLineAt(low, e2)>> :
                          e2 \in { First({ k \in (w + 1)..Len(low) : UrlLineAt(low, k) > 0 }) } }) :
               w \in {SkipSpace(low, ref[2] + 1)} })

\* \s+([^\n]+) matches with its white space at position p of s: the
\* position the group starts at, or 0
HeadAt(s, p) ==
    IF p > Len(s) \/ ~IsSpace(At(s, p)) THEN 0
    ELSE The({ IF w <= Len(s) THEN w
               ELSE MaxOf({0} \cup { k \in (p + 1)..Len(s) : At(s, k) # NL }) :
               w \in {SkipSpace(s, p)} })

\* lines 507-511: the groups of the block b of the reference ref
BlockGroups(full_text, low, ref, b) ==
    << Slice(full_text, ref[1], ref[2]),
       Strip(Slice(full_text, b[1], b[2] - 1)),
       Slice(full_text, b[3], UrlAt(low, b[3]) - 1) >>

\* lines 514-523: the reference ref, and the headline and URL found in
\* rest, the text after it
FallbackGroups(full_text, ref, rest) ==
    << Slice(full_text, ref[1], ref[2]),
       GroupText(rest, FirstNonZero([q \in 1..Len(rest) |-> HeadAt(rest, q)]), NL),
       Span(rest, FirstSpan([q \in 1..Len(rest) |-> UrlAt(rest, q)])) >>

\* lines 503-524, ib the first position of low the block pattern matches at
\* and ir the first the reference pattern matches at, 0 for none
ListingBlockAt(full_text, low, ib, ir) ==
    IF ib # 0
    THEN The({ BlockGroups(full_text, low, ref, BlockAt(low, ref)) :
               ref \in {ListingRefAt(low, ib)} })
    ELSE IF ir # 0
    THEN The({ FallbackGroups(full_text, ref, From(full_text, ref[2] + 1)) :
               ref \in {ListingRefAt(low, ir)} })
    ELSE <<"", "", "">>

\* <<ref_id, headline, listing_url>> of lines 503-524
ListingBlock(full_text) ==
    The({ ListingBlockAt(full_text, low,
                         First({ i \in 1..Len(low) : BlockAt(low, ListingRefAt(low, i))[1] > 0 }),
                         First({ i \in 1..Len(low) : ListingRefAt(low, i)[1] > 0 })) :
          low \in {Lower(full_text)} })

\* get_field of extract_businessesforsale_text: label:\s*(.+), case-sensitive
BfsField(full_text, label) ==
    GroupText(full_text,
              FirstNonZero(The({ [i \in 1..Len(full_text) |-> ColonGroupAt(full_text, lab, i)] :
                                 lab \in {label \o ":"} })),
              NL)

\* where ^\s*Address:\s*(.+)$ matches from position i of low: the position
\* the group starts at, or 0
AddressGroupAt(low, i) ==
    IF ~IsLineStart(low, i) THEN 0
    ELSE The({ IF StartsAt(low, "address:", a) THEN GroupAfter(low, a + 8, NL) ELSE 0 :
               a \in {SkipSpace(low, i)} })

\* m_addr.group(1) of re.search(r"(?im)^\s*Address:\s*(.+)$", full_text), or ''
BfsAddress(full_text) ==
    The({ IF j = 0 THEN "" ELSE Slice(full_text, j, ScanTo(full_text, j, NL) - 1) :
          j \in { FirstNonZero(The({ [i \in 1..Len(low) |-> AddressGroupAt(low, i)] :
                                     low \in {Lower(full_text)} })) } })

\* the group of BfsComments starts at position g of low
BfsCommentsFrom(full_text, low, g) ==
    Strip(Span(full_text,
               The({ IF e = 0 THEN <<0, 0>> ELSE <<g, e - 1>> :
                     e \in { First({ k \in (g + 1)..(Len(low) + 1) :
                                       LabelColonAt(low, "name", SkipSpace(low, k)) > 0 }) } })))

\* cmt.group(1).strip() of lines 554-556, or ''
BfsComments(full_text) ==
    The({ The({ IF h = 0 THEN ""
                ELSE BfsCommentsFrom(full_text, low,
                                     SkipSpace(low, h + Len("has received the following message:"))) :
                h \in {Find(low, "has received the following message:", 1)} }) :
          low \in {Lower(full_text)} })

\* lines 558-577: the record, of the values the body found
BfsFlat(full_text, block, name, m_addr, parsed) ==
    [ first_name |-> name[1],
      last_name |-> name[2],
      email |-> BfsField(full_text, "Email"),
      phone |-> normalize_phone_us_e164(BfsField(full_text, "Tel")),
      ref_id |-> block[1],
      listing_id |-> "",
      headline |-> block[2],
      address |-> IF m_addr = "" THEN "" ELSE parsed.address1,
      city |-> IF m_addr = "" THEN "" ELSE parsed.city,
      state |-> IF m_addr = "" THEN "" ELSE parsed.state,
      country |-> IF m_addr = "" THEN "" ELSE parsed.country,
      contact_zip |-> IF m_addr = "" THEN "" ELSE parsed.zip,
      investment_amount |-> "",
      purchase_timeline |-> "",
      comments |-> clean_comments_block(BfsComments(full_text)),
      listing_url |-> block[3],
      services_interested_in |-> "",
      heard_about |-> "" ]

extract_businessesforsale_text(text_body) ==
    The({ The({ BfsFlat(full_text, ListingBlock(full_text),
                        SplitName(BfsField(full_text, "Name")),
                        m_addr, parse_address_loose(StripChars(m_addr, " ."), "")) :
                m_addr \in {BfsAddress(full_text)} }) :
          full_text \in {JoinNewline(StrippedLines(RemoveChar(text_body, "\r")))} })

(***************************************************************************)
(* first_http_url, derive_domain                                           *)
(***************************************************************************)
\* s.rstrip(chars)
RStripChars(s, chars) ==
    Slice(s, 1, MaxOf({0} \cup { b \in 1..Len(s) : ~InChars(At(s, b), chars) }))

\* https?://[^\s\]]+ matches at position i of s: the position after it, or 0
HttpUrlAt(s, i) ==
    The({ The({ IF k > 0 /\ e > k THEN e ELSE 0 : e \in {ScanTo(s, k, " \t\n\r]")} }) :
          k \in { IF StartsAt(s, "http://", i) THEN i + 7
                  ELSE IF StartsAt(s, "https://", i) THEN i + 8
                  ELSE 0 } })

first_http_url(value) ==
    IF value = "" THEN ""
    ELSE The({ IF m[1] = 0 THEN Strip(value) ELSE RStripChars(Span(value, m), "]") :
               m \in { FirstSpan([i \in 1..Len(value) |-> HttpUrlAt(value, i)]) } })

\* a value of a call that may raise: exc is str(exception), '' when it returned
Value(val) == [exc |-> "", val |-> val]

Raise(msg) == [exc |-> msg, val |-> ""]

\* scheme_chars of urllib.parse
SchemeChars == Alnum \o "+-."

\* the characters of an IPv6 literal
Ipv6Chars == "0123456789abcdefABCDEF:."

\* url of urlsplit: s after its scheme
AfterScheme(s) ==
    The({ IF /\ i > 1 /\ IsAlpha(At(s, 1))
             /\ \A k \in 1..(i - 1) : InChars(At(s, k), SchemeChars)
          THEN From(s, i + 1)
          ELSE s :
          i \in {Find(s, ":", 1)} })

\* _check_bracketed_host(host), then the netloc; an address is taken to be
\* text of Ipv6Chars that holds a colon
BracketedHost(netloc, host) ==
    IF Contains(host, ":") /\ \A k \in 1..Len(host) : InChars(At(host, k), Ipv6Chars)
    THEN Value(netloc)
    ELSE Raise("'" \o host \o "' does not appear to be an IPv4 or IPv6 address")

\* the checks urlsplit makes of the brackets of netloc, whose first [ is at
\* position open (0 for none)
CheckedNetloc(netloc, open) ==
    IF Contains(netloc, "[") # Contains(netloc, "]") THEN Raise("Invalid IPv6 URL")
    ELSE IF open = 0 THEN Value(netloc)
    ELSE The({ BracketedHost(netloc, IF close = 0 THEN From(netloc, open + 1)
                                     ELSE Slice(netloc, open + 1, close - 1)) :
               close \in {Find(netloc, "]", open + 1)} })

\* urlparse(s).netloc: the text between the // that follows the scheme and
\* the first of / ? #.  urlsplit raises ValueError when the brackets of the
\* netloc do not pair up or do not hold an address.
Netloc(s) ==
    The({ CheckedNetloc(netloc, Find(netloc, "[", 1)) :
          netloc \in { The({ IF StartsAt(url, "//", 1)
                             THEN Slice(url, 3, ScanTo(url, 3, "/?#") - 1)
                             ELSE "" :
                             url \in {AfterScheme(s)} }) } })

\* host of derive_domain, without its www.
BareHost(host) == IF StartsAt(host, "www.", 1) THEN From(host, 5) ELSE host

derive_domain(s0) ==
    The({ IF s1 = "" THEN Value("")
          ELSE The({ IF n.exc # "" THEN n ELSE Value(BareHost(Lower(n.val))) :
                     n \in {Netloc(IF StartsAt(s1, "http", 1) THEN s1 ELSE "http://" \o s1)} }) :
          s1 \in {Strip(s0)} })

\* derive_domain(a) or derive_domain(b): b is looked at when a gave ''
OrDomain(a, b) == IF a.exc # "" \/ a.val # "" THEN a ELSE derive_domain(b)

(***************************************************************************)
(* FCBB (TEXT)                                                             *)
(***************************************************************************)
\* labels of extract_fcbb_text
FcbbLabels ==
    << "Domain", "Listing Number", "Listing Description", "First Name", "Last Name",
       "Email Address", "Phone Number", "Address", "City", "Postal Code",
       "Originating Website", "Current Site Page URL" >>

\* the label for which (?:label_group): matches at position i of s, or ''
FcbbLabelAt(s, i) ==
    The({ IF n = 0 THEN "" ELSE FcbbLabels[n] :
          n \in { First({ k \in 1..Len(FcbbLabels) : StartsAt(s, FcbbLabels[k] \o ":", i) }) } })

\* The start positions of the matches re.finditer yields over s: a label
\* that stands inside the label text of a match is passed over.
FcbbMatches(s) ==
    The({ { i \in 1..Len(s) :
              /\ labs[i] # ""
              /\ ~\E j \in 1..(i - 1) : labs[j] # "" /\ i <= j + Len(labs[j]) } :
          labs \in { [i \in 1..Len(s) |-> FcbbLabelAt(s, i)] } })

\* m.group("value").strip() of the match at position i: the lazy value ends
\* where the next label stands, or at the end of s
FcbbValueAt(s, i) ==
    The({ Strip(Slice(s, v, MinOf({Len(s) + 1}
                                     \cup { e \in v..Len(s) : FcbbLabelAt(s, e) # "" }) - 1)) :
          v \in {SkipSpace(s, i + Len(FcbbLabelAt(s, i)) + 1)} })

\* found.get(lab, "") for the matches all: the last match of a label wins
Found(s, all, lab) ==
    The({ IF occ = {} THEN "" ELSE FcbbValueAt(s, MaxOf(occ)) :
          occ \in { { i \in all : FcbbLabelAt(s, i) = lab } } })

\* re.split(r"\s+Listing Description\s*:", ref_id, 1)[0]
BeforeDescription(ref_id) ==
    CutAtFirst(ref_id,
               { q \in 1..Len(ref_id) :
                   /\ IsSpace(At(ref_id, q))
                   /\ LabelColonAt(ref_id, "Listing Description", SkipSpace(ref_id, q)) > 0 })

\* noise_patterns, matched at the start of a line under re.I
IsNoise(ln) ==
    The({ \/ StartsAt(low, "[http://", 1) \/ StartsAt(low, "[https://", 1)
          \/ StartsAt(low, "first choice business brokers", 1)
          \/ /\ StartsAt(low, "© 20", 1) /\ DigitsAt(low, 5, 2)
             /\ StartsAt(low, " first choice", 7)
          \/ StartsAt(low, "alert -", 1) :
          low \in {Lower(ln)} })

\* clean_lines of lines
RECURSIVE WithoutNoise(_)
WithoutNoise(lines) ==
    IF lines = <<>> THEN <<>>
    ELSE (IF IsNoise(Head(lines)) THEN <<>> ELSE <<Head(lines)>>) \o WithoutNoise(Tail(lines))

\* re.match(r"(\d{3}-\d+)\s+(.*)", ln): <<group 1, group 2>>, or <<"", "">>
RefAndHeadline(ln) ==
    The({ IF /\ DigitsAt(ln, 1, 3) /\ StartsAt(ln, "-", 4) /\ e > 5
             /\ e <= Len(ln) /\ IsSpace(At(ln, e))
          THEN << Slice(ln, 1, e - 1),
                  The({ Slice(ln, g, ScanTo(ln, g, NL) - 1) : g \in {SkipSpace(ln, e)} }) >>
          ELSE <<"", "">> :
          e \in {SkipDigits(ln, 5)} })

\* re.search(r"\d{3}[-)\s]\d{3}", ln)
IsPhoneLine(ln) ==
    \E i \in 1..Len(ln) :
        DigitsAt(ln, i, 3) /\ InChars(At(ln, i + 3), "-) \t\n\r") /\ DigitsAt(ln, i + 4, 3)

\* the keys both branches of extract_fcbb_text return
FcbbFlat(first_name, last_name, email, phone, ref_id, headline, address, city, contact_zip, originating_website, current_site_page_url, domain) ==
    [ first_name |-> first_name,
      last_name |-> last_name,
      email |-> email,
      phone |-> phone,
      ref_id |-> ref_id,
      listing_id |-> "",
      headline |-> headline,
      listing_description |-> headline,
      address |-> address,
      city |-> city,
      state |-> "",
      contact_zip |-> contact_zip,
      investment_amount |-> "",
      purchase_timeline |-> "",
      comments |-> "",
      listing_url |-> "",
      originating_website |-> originating_website,
      current_site_page_url |-> current_site_page_url,
      domain |-> domain,
      services_interested_in |-> "",
      heard_about |-> "" ]

\* lines 936-976: the structured parse; s is re.sub(r"\s+", " ", txt) and
\* all the start positions of its matches
FcbbStructured(s, all) ==
    The({ The({ [ exc |-> domain.exc,
                  flat |->
                    IF domain.exc # "" THEN EmptyDict
                    ELSE FcbbFlat(Found(s, all, "First Name"), Found(s, all, "Last Name"),
                                  Found(s, all, "Email Address"),
                                  normalize_phone_us_e164(Found(s, all, "Phone Number")),
                                  Strip(BeforeDescription(Strip(Found(s, all, "Listing Number")))),
                                  Strip(Found(s, all, "Listing Description")),
                                  Found(s, all, "Address"),
                                  RStripChars(Found(s, all, "City"), ", "),
                                  Found(s, all, "Postal Code"),
                                  originating_website, current_site_page_url, domain.val) ] :
                domain \in { OrDomain(OrDomain(derive_domain(Found(s, all, "Domain")),
                                               originating_website),
                                      current_site_page_url) } }) :
          originating_website \in {first_http_url(Found(s, all, "Originating Website"))},
          current_site_page_url \in {first_http_url(Found(s, all, "Current Site Page URL"))} })

\* <<ref_id, headline>> of lines 1001-1006
FcbbRef(clean_lines) ==
    The({ IF r = 0 THEN <<"", "">> ELSE RefAndHeadline(clean_lines[r]) :
          r \in { First({ n \in 2..Len(clean_lines) :
                            RefAndHeadline(clean_lines[n])[1] # "" }) } })

\* lines 990-1048: the record of clean_lines
FcbbFreeformOf(clean_lines) ==
    The({ FcbbFlat(name[1], name[2],
                   IF em = 0 THEN "" ELSE SearchEmail(clean_lines[em], FALSE),
                   IF ph = 0 THEN "" ELSE normalize_phone_us_e164(clean_lines[ph]),
                   ref[1], ref[2], "", "", "", "", "", "fcbb.com") :
          name \in { IF Len(clean_lines) = 0 THEN <<"", "">> ELSE SplitName(clean_lines[1]) },
          ref \in { FcbbRef(clean_lines) },
          ph \in { First({ n \in 1..Len(clean_lines) : IsPhoneLine(clean_lines[n]) }) },
          em \in { First({ n \in 1..Len(clean_lines) :
                             SearchEmail(clean_lines[n], FALSE) # "" }) } })

\* lines 981-1048: the free-form parse
FcbbFreeform(txt) == FcbbFreeformOf(WithoutNoise(StrippedLines(txt)))

\* the two parses of txt; s is re.sub(r"\s+", " ", txt)
FcbbParse(txt, s) ==
    The({ IF all # {} THEN FcbbStructured(s, all)
          ELSE [exc |-> "", flat |-> FcbbFreeform(txt)] :
          all \in {FcbbMatches(s)} })

\* <<exc, flat>>: str(exception) when derive_domain raised, else the record
extract_fcbb_text(text_body) ==
    The({ FcbbParse(txt, NormalizeSpace(txt)) : txt \in {RemoveChar(text_body, "\r")} })

(***************************************************************************)
(* html.unescape and BeautifulSoup(markup, "html.parser").                 *)
(* The markup of the model is start tags, end tags and text; a tag runs    *)
(* from < followed by a letter (or by / and a letter) to the next >.       *)
(* Comments, declarations and script content do not occur in the texts of  *)
(* the model.  An element is the index of its start tag in the token list. *)
(***************************************************************************)
\* the character references the model decodes
Entities ==
    << <<"&amp;", "&">>, <<"&lt;", "<">>, <<"&gt;", ">">>, <<"&quot;", "\"">>,
       <<"&#39;", "'">>, <<"&amp", "&">>, <<"&lt", "<">>, <<"&gt", ">">>,
       <<"&quot", "\"">> >>

\* the first entry of Entities that stands at position i of s, or 0
EntityAt(s, i) == First({ n \in 1..Len(Entities) : StartsAt(s, Entities[n][1], i) })

\* html.unescape(s); a reference is read where no earlier one covers its &
HtmlUnescape(s) ==
    Concat(The({ [k \in 1..Len(s) |->
                    IF \E i \in 1..(k - 1) : ents[i] > 0 /\ i + Len(Entities[ents[i]][1]) > k
                    THEN ""
                    ELSE IF ents[k] > 0 THEN Entities[ents[k]][2]
                    ELSE At(s, k)] :
                 ents \in { [i \in 1..Len(s) |-> EntityAt(s, i)] } }),
           1, Len(s))

\* the position of the > that closes the tag opening at position i of s, or 0
TagEnd(s, i) ==
    IF /\ At(s, i) = "<"
       /\ \/ IsAlpha(At(s, i + 1))
          \/ At(s, i + 1) = "/" /\ IsAlpha(At(s, i + 2))
       /\ ScanTo(s, i, ">") <= Len(s)
    THEN ScanTo(s, i, ">")
    ELSE 0

\* elements that have no content
VoidTags ==
    { "area", "base", "br", "col", "embed", "hr", "img", "input", "link", "meta",
      "param", "source", "track", "wbr" }

\* the value of an attribute that starts at position v of tag with the
\* character q
AttrValue(tag, v, q) ==
    HtmlUnescape(IF q = "\"" \/ q = "'"
                 THEN Slice(tag, v + 1, ScanTo(tag, v + 1, q) - 1)
                 ELSE Slice(tag, v, ScanTo(tag, v, " \t\n\r>") - 1))

\* the value of the href attribute of a tag, as <<present, value>>
HrefOf(tag) ==
    The({ IF i = 0 THEN <<FALSE, "">> ELSE <<TRUE, AttrValue(tag, i + 6, At(tag, i + 6))>> :
          i \in { The({ First({ k \in 1..Len(low) :
                                  IsSpace(At(low, k)) /\ StartsAt(low, "href=", k + 1) }) :
                        low \in {Lower(tag)} }) } })

\* the name of the tag whose name starts at position n of s
TagName(s, n) == Lower(Slice(s, n, ScanTo(s, n, " \t\n\r/>") - 1))

\* the token of the tag s[i-1:e]
TagToken(s, i, e) ==
    The({ [ kind |-> IF At(s, i + 1) = "/" THEN "close"
                     ELSE IF name \in VoidTags \/ At(s, e - 1) = "/" THEN "void"
                     ELSE "open",
            name |-> name,
            text |-> Slice(s, i, e),
            has_href |-> href[1],
            href |-> href[2] ] :
          name \in {TagName(s, IF At(s, i + 1) = "/" THEN i + 2 ELSE i + 1)},
          href \in {HrefOf(Slice(s, i, e))} })

\* BeautifulSoup.endData: a string of white space alone becomes one newline
\* or one blank
TextToken(data) ==
    [ kind |-> "text",
      name |-> "",
      text |-> IF Strip(data) # "" THEN HtmlUnescape(data)
               ELSE IF Contains(data, NL) THEN NL
               ELSE " ",
      has_href |-> FALSE,
      href |-> "" ]

RECURSIVE Tokens(_, _)

\* the tokens of s from position from on, the first tag standing at
\* position i and ending at position e
TokensAt(s, from, i, e) ==
    (IF i > from THEN <<TextToken(Slice(s, from, i - 1))>> ELSE <<>>)
        \o <<TagToken(s, i, e)>>
        \o Tokens(s, e + 1)

\* the tokens of s from position from on
Tokens(s, from) ==
    IF from > Len(s) THEN <<>>
    ELSE The({ IF i = 0 THEN <<TextToken(From(s, from))>>
               ELSE TokensAt(s, from, i, TagEnd(s, i)) :
               i \in { First({ k \in from..Len(s) : TagEnd(s, k) > 0 }) } })

\* The index of the token that ends each element: stack holds the elements
\* open before token k.  An end tag closes the innermost open element of its
\* name and all that are open inside it (_popToTag); the end of the
\* document closes the rest.
RECURSIVE Ends(_, _, _, _)
Ends(toks, k, stack, ends) ==
    IF k > Len(toks)
    THEN [e \in 1..Len(toks) |->
             IF \E n \in 1..Len(stack) : stack[n] = e THEN Len(toks) + 1 ELSE ends[e]]
    ELSE LET t == toks[k]
             same == { n \in 1..Len(stack) : toks[stack[n]].name = t.name }
         IN  CASE t.kind = "open" -> Ends(toks, k + 1, Append(stack, k), ends)
               [] t.kind = "void" -> Ends(toks, k + 1, stack, [ends EXCEPT ![k] = k])
               [] t.kind = "close" /\ same # {} ->
                     Ends(toks, k + 1, Slice(stack, 1, MaxOf(same) - 1),
                          [e \in 1..Len(toks) |->
                              IF \E n \in MaxOf(same)..Len(stack) : stack[n] = e
                              THEN k ELSE ends[e]])
               [] OTHER -> Ends(toks, k + 1, stack, ends)

\* BeautifulSoup(markup, "html.parser")
Soup(markup) ==
    The({ [ toks |-> toks,
            ends |-> Ends(toks, 1, <<>>, [e \in 1..Len(toks) |-> 0]) ] :
          toks \in {Tokens(markup, 1)} })

IsTag(soup, k) == soup.toks[k].kind \in {"open", "void"}

\* the strings of the document by token, '' for a tag; strip: stripped
Strings(soup, strip) ==
    [ k \in 1..Len(soup.toks) |->
        IF soup.toks[k].kind # "text" THEN ""
        ELSE IF strip THEN Strip(soup.toks[k].text)
        ELSE soup.toks[k].text ]

\* "sep".join of the strings strs at the tokens all
RECURSIVE JoinSep(_, _, _)
JoinSep(strs, all, sep) ==
    IF all = {} THEN ""
    ELSE The({ IF all \ {k} = {} THEN strs[k]
               ELSE strs[k] \o sep \o JoinSep(strs, all \ {k}, sep) :
               k \in {MinOf(all)} })

\* "sep".join(strings) over the tokens a..b; strip: of the stripped strings
\* that are not empty
JoinStrings(soup, a, b, sep, strip) ==
    The({ JoinSep(strs, { k \in a..b : strs[k] # "" }, sep) : strs \in {Strings(soup, strip)} })

\* soup.get_text(sep, strip=strip)
get_text(soup, sep, strip) == JoinStrings(soup, 1, Len(soup.toks), sep, strip)

\* tag.get_text(sep, strip=strip) of the element k
TagText(soup, k, sep, strip) == JoinStrings(soup, k + 1, soup.ends[k] - 1, sep, strip)

\* the elements named name among the tokens a..b, in document order
FindAll(soup, name, a, b) ==
    { k \in a..b : k >= 1 /\ k <= Len(soup.toks) /\ IsTag(soup, k)
                   /\ soup.toks[k].name = name }

\* tag.find_parent(name) of the element k, or 0
FindParent(soup, k, name) ==
    MaxOf({0} \cup { j \in FindAll(soup, name, 1, k - 1) : soup.ends[j] > k })

\* tag.find_next(name) of the element k, or 0
FindNext(soup, k, name) == First(FindAll(soup, name, k + 1, Len(soup.toks)))

\* the source text of the tokens a..b
RECURSIVE Markup(_, _, _)
Markup(soup, a, b) ==
    IF a > b \/ a > Len(soup.toks) THEN ""
    ELSE soup.toks[a].text \o Markup(soup, a + 1, b)

\* the node n that follows the end e of the element k, when they have one
\* parent: a string as it is, a tag as its source text
SiblingAt(soup, k, e, n) ==
    IF \/ ~(e = k \/ (e <= Len(soup.toks) /\ soup.toks[e].name = soup.toks[k].name))
       \/ n > Len(soup.toks)
       \/ soup.toks[n].kind = "close"
    THEN ""
    ELSE IF soup.toks[n].kind = "text" THEN soup.toks[n].text
    ELSE Markup(soup, n, soup.ends[n])

\* str(tag.next_sibling) of the element k, '' when there is none: the node
\* that follows the end of k inside the same parent.  A tag is rendered as
\* its source text.
NextSibling(soup, k) == SiblingAt(soup, k, soup.ends[k], soup.ends[k] + 1)

(***************************************************************************)
(* The HTML extractors that read the text of the document.                 *)
(***************************************************************************)
\* BeautifulSoup(html.unescape(html_body), "html.parser").get_text("\n", strip=strip)
PageText(html_body, strip) == get_text(Soup(HtmlUnescape(html_body)), NL, strip)

extract_dealstream_html(html_body) ==
    The({ DealstreamFlat(text, LeadName(text)) : text \in {PageText(html_body, FALSE)} })

extract_murphy_html(html_body) == MurphyFlat(PageText(html_body, FALSE), "\n\r<")

extract_businessbroker_html(html_body) == BusinessBrokerFlat(PageText(html_body, FALSE))

extract_restaurantsforsale_html(html_body) == RestaurantsFlat(PageText(html_body, TRUE))

extract_loopnet_html(html_body) == extract_loopnet_text(PageText(html_body, TRUE))

(***************************************************************************)
(* BizBuySell (HTML)                                                       *)
(***************************************************************************)
\* re.search(r"^contact\s+", t, re.I)
StartsWithContact(t) == StartsAt(Lower(t), "contact", 1) /\ IsSpace(At(t, 8))

\* the first of the texts of the <b> elements that is no field label and is
\* longer than 8 characters, or ''
FirstHeadline(texts) ==
    The({ IF k = 0 THEN "" ELSE texts[k] :
          k \in { First({ j \in DOMAIN texts :
                            texts[j] # "" /\ ~StartsWithContact(texts[j]) /\ Len(texts[j]) > 8 }) } })

\* lines 305-311
BizHtmlHeadline(soup) ==
    FirstHeadline([k \in FindAll(soup, "b", 1, Len(soup.toks)) |-> TagText(soup, k, "", TRUE)])

\* re.sub(rf"{label}\s*:", "", raw, flags=re.I)
CutLabel(raw, label) ==
    SelectRange(raw,
                The({ [k \in 1..Len(raw) |-> ~\E i \in 1..k : LabelColonAt(low, lab, i) > k] :
                      low \in {Lower(raw)}, lab \in {Lower(label)} }),
                1, Len(raw))

\* Where ([A-Z][a-z]+(?:\s+[A-Z][a-z]+)?) (re.I) matches from position g of
\* low: <<start, end>> of the group, or <<0, 0>>
TitleGroupFrom(low, g) ==
    The({ IF e < g + 2 THEN <<0, 0>>
          ELSE The({ The({ IF g2 > e /\ e2 >= g2 + 2 THEN <<g, e2 - 1>> ELSE <<g, e - 1>> :
                           e2 \in {SkipChars(low, g2, Alpha)} }) :
                     g2 \in {SkipSpace(low, e)} }) :
          e \in {SkipChars(low, g, Alpha)} })

\* Where label\s*:\s*([A-Z][a-z]+(?:\s+[A-Z][a-z]+)?) (re.I) matches with
\* the label at position i of low: <<start, end>> of the group, or <<0, 0>>
TitleGroupAt(low, label, i) ==
    The({ IF c = 0 THEN <<0, 0>> ELSE TitleGroupFrom(low, SkipSpace(low, c)) :
          c \in {LabelColonAt(low, label, i)} })

\* lines 336-338: the regex on the full text
BizHtmlFallback(text_content, label) ==
    Strip(Span(text_content,
               FirstFound(The({ [i \in 1..Len(low) |-> TitleGroupAt(low, lab, i)] :
                                low \in {Lower(text_content)}, lab \in {Lower(label)} }))))

\* s.lstrip(chars)
LStripChars(s, chars) == From(s, SkipChars(s, 1, chars))

\* lines 317-334: <<TRUE, the value returned>> for the element stag, or
\* <<FALSE, "">> when no branch returns
StagValue(soup, stag, label, lab) ==
    The({ IF lab = "listing id" /\ link > 0 THEN <<TRUE, TagText(soup, link, "", TRUE)>>
          ELSE IF lab = "ref id" /\ sib # ""
          THEN <<TRUE, Strip(LStripChars(Strip(sib), ":"))>>
          ELSE IF nxt > 0 THEN <<TRUE, TagText(soup, nxt, "", TRUE)>>
          ELSE IF td > 0 THEN <<TRUE, Strip(CutLabel(TagText(soup, td, " ", TRUE), label))>>
          ELSE <<FALSE, "">> :
          link \in {FindNext(soup, stag, "a")},
          sib \in {NextSibling(soup, stag)},
          nxt \in {FindNext(soup, stag, "span")},
          td \in {FindParent(soup, stag, "td")} })

\* stag of get_field: the first <b> or <span> whose text holds lab, or 0
Stag(soup, lab) ==
    First({ k \in FindAll(soup, "b", 1, Len(soup.toks))
                     \cup FindAll(soup, "span", 1, Len(soup.toks)) :
              Contains(Lower(TagText(soup, k, "", TRUE)), lab) })

\* get_field of extract_bizbuysell_html, lab being label.lower()
BizHtmlFieldOf(soup, label, lab) ==
    The({ IF v[1] THEN v[2] ELSE BizHtmlFallback(get_text(soup, " ", TRUE), label) :
          v \in { The({ IF stag = 0 THEN <<FALSE, "">> ELSE StagValue(soup, stag, label, lab) :
                        stag \in {Stag(soup, lab)} }) } })

\* get_field of extract_bizbuysell_html
BizHtmlField(soup, label) == BizHtmlFieldOf(soup, label, Lower(label))

\* lines 340-370: the record of the document
BizHtmlFlat(soup) ==
    The({ [ first_name |-> name[1],
            last_name |-> name[2],
            email |-> Or(SearchEmail(email, FALSE), email),
            phone |-> normalize_phone_us_e164(BizHtmlField(soup, "Contact Phone")),
            ref_id |-> BizHtmlField(soup, "Ref ID"),
            listing_id |-> BizHtmlField(soup, "Listing ID"),
            headline |-> BizHtmlHeadline(soup),
            contact_zip |-> BizHtmlField(soup, "Contact Zip"),
            investment_amount |-> BizHtmlField(soup, "Able to Invest"),
            purchase_timeline |-> BizHtmlField(soup, "Purchase Within"),
            comments |-> clean_comments_block(BizHtmlField(soup, "Comments")),
            listing_url |-> "",
            services_interested_in |-> "",
            heard_about |-> "" ] :
          name \in {SplitName(BizHtmlField(soup, "Contact Name"))},
          email \in {BizHtmlField(soup, "Contact Email")} })

extract_bizbuysell_html(html_body) == BizHtmlFlat(Soup(HtmlUnescape(html_body)))

(***************************************************************************)
(* FCBB (HTML)                                                             *)
(***************************************************************************)
label_map ==
    [ l \in { "First Name", "Last Name", "Email Address", "Phone Number", "Address",
              "City", "State", "Postal Code", "Listing Number", "Listing Description",
              "Domain", "Originating Website", "Current Site Page URL" } |->
        CASE l = "First Name" -> "first_name"
          [] l = "Last Name" -> "last_name"
          [] l = "Email Address" -> "email"
          [] l = "Phone Number" -> "phone"
          [] l = "Address" -> "address"
          [] l = "City" -> "city"
          [] l = "State" -> "state"
          [] l = "Postal Code" -> "contact_zip"
          [] l = "Listing Number" -> "ref_id"
          [] l = "Listing Description" -> "listing_description"
          [] l = "Domain" -> "domain"
          [] l = "Originating Website" -> "originating_website"
          [] l = "Current Site Page URL" -> "current_site_page_url" ]

\* label_map.get(label_raw) of a <strong>, or ''
StrongKey(soup, k) ==
    The({ IF label_raw \in DOMAIN label_map THEN label_map[label_raw] ELSE "" :
          label_raw \in {Strip(RStripChars(TagText(soup, k, " ", TRUE), ":"))} })

\* cell.find("a", href=True), or 0
CellLink(soup, cell) ==
    First({ a \in FindAll(soup, "a", cell + 1, soup.ends[cell] - 1) : soup.toks[a].has_href })

\* href.split(":", 1)[-1]
AfterFirstColon(href) ==
    The({ IF c = 0 THEN href ELSE From(href, c + 1) : c \in {Find(href, ":", 1)} })

\* href.split(":")[-1]
AfterLastColon(href) ==
    From(href, MaxOf({0} \cup { i \in 1..Len(href) : At(href, i) = ":" }) + 1)

\* tr.find_all("td") of the row of the <strong> k, {} when it has no row
RowCells(soup, k) ==
    The({ IF td_label = 0 THEN {}
          ELSE The({ IF tr = 0 THEN {} ELSE FindAll(soup, "td", tr + 1, soup.ends[tr] - 1) :
                     tr \in {FindParent(soup, td_label, "tr")} }) :
          td_label \in {FindParent(soup, k, "td")} })

\* lines 832-837: url of cell_text, else of the link a of the cell
UrlValue(soup, url, a) ==
    IF url # "" \/ a = 0 THEN url
    ELSE Or(first_http_url(TagText(soup, a, "", TRUE)), soup.toks[a].href)

\* lines 831-852: value, of the text of the last cell and its first link a
CellValue(soup, key, cell_text, a) ==
    IF key \in {"originating_website", "current_site_page_url"}
    THEN UrlValue(soup, first_http_url(cell_text), a)
    ELSE IF /\ key \in {"email", "phone"}
            /\ a > 0
            /\ StartsAt(Lower(soup.toks[a].href),
                        IF key = "email" THEN "mailto:" ELSE "tel:", 1)
    THEN Or(TagText(soup, a, "", TRUE), AfterFirstColon(soup.toks[a].href))
    ELSE cell_text

\* lines 823-852: value, of the cells tds of the row
RowValue(soup, key, tds) ==
    IF Cardinality(tds) < 2 THEN ""
    ELSE The({ CellValue(soup, key, TagText(soup, cell, " ", TRUE), CellLink(soup, cell)) :
               cell \in {MaxOf(tds)} })

\* lines 823-854: the value one <strong> of key `key` gives out[key]
StrongValue(soup, k, key) ==
    The({ Strip(IF key = "city" THEN RStripChars(value, ", ") ELSE value) :
          value \in {RowValue(soup, key, RowCells(soup, k))} })

\* out[key] after the loop of lines 818-854: the last <strong> of the key wins
Labelled(soup, key) ==
    The({ IF k = 0 THEN "" ELSE StrongValue(soup, k, key) :
          k \in { MaxOf({0} \cup { j \in FindAll(soup, "strong", 1, Len(soup.toks)) :
                                     StrongKey(soup, j) = key }) } })

\* soup.find("a", href=lambda h: h and h.lower().startswith(scheme)), or 0
SchemeLink(soup, scheme) ==
    First({ a \in FindAll(soup, "a", 1, Len(soup.toks)) :
              StartsAt(Lower(soup.toks[a].href), scheme, 1) })

\* ps of line 858, as the elements
Paragraphs(soup) ==
    { k \in FindAll(soup, "p", 1, Len(soup.toks)) : TagText(soup, k, "", TRUE) # "" }

\* re.match on ps[1] of lines 865-870: <<group 1, group 2>>, or <<"", "">>
ListingLine(soup, ps) ==
    IF Cardinality(ps) > 1
    THEN RefAndHeadline(TagText(soup, MinOf(ps \ {MinOf(ps)}), " ", TRUE))
    ELSE <<"", "">>

\* ps[0].split(" ", 1) of lines 860-863, <<"", "">> for no paragraph
FirstParagraph(soup, ps) ==
    IF ps = {} THEN <<"", "">> ELSE SplitName(TagText(soup, MinOf(ps), " ", TRUE))

\* lines 857-877: out after the fallback for the <p> block format
FallbackOut(soup, out, ps, name, listing, mailto, tel) ==
    [ key \in DOMAIN out |->
        IF key = "first_name" /\ ps # {} THEN name[1]
        ELSE IF key = "last_name" /\ ps # {} THEN name[2]
        ELSE IF key = "ref_id" /\ listing[1] # "" THEN listing[1]
        ELSE IF key = "listing_description" /\ listing[1] # "" THEN listing[2]
        ELSE IF key = "email" /\ mailto > 0 THEN TagText(soup, mailto, "", TRUE)
        ELSE IF key = "phone" /\ tel > 0
        THEN normalize_phone_us_e164(AfterLastColon(soup.toks[tel].href))
        ELSE out[key] ]

\* out after lines 856-877
WithFallback(soup, out) ==
    IF \A key \in {"first_name", "last_name", "ref_id", "email", "phone"} : out[key] = ""
    THEN The({ FallbackOut(soup, out, ps, FirstParagraph(soup, ps), ListingLine(soup, ps),
                           SchemeLink(soup, "mailto:"), SchemeLink(soup, "tel:")) :
               ps \in {Paragraphs(soup)} })
    ELSE out

\* out["domain"] of lines 881-884, as a call that may raise
OutDomain(out) ==
    IF out.domain # "" THEN derive_domain(out.domain)
    ELSE OrDomain(derive_domain(out.originating_website), out.current_site_page_url)

\* lines 879-909: the result, of out and the domain derived from it
FcbbHtmlResult(out, domain) ==
    [ exc |-> domain.exc,
      flat |->
        IF domain.exc # "" THEN EmptyDict
        ELSE [ FcbbFlat(out.first_name, out.last_name, out.email,
                        normalize_phone_us_e164(out.phone),
                        out.ref_id, out.listing_description, out.address,
                        out.city, out.contact_zip,
                        out.originating_website, out.current_site_page_url, domain.val)
               EXCEPT !.state = out.state ] ]

\* <<exc, flat>>: str(exception) when derive_domain raised, else the record
extract_fcbb_html(html_body) ==
    The({ FcbbHtmlResult(out, OutDomain(out)) :
          out \in { The({ WithFallback(soup, [ key \in { label_map[l] : l \in DOMAIN label_map } |->
                                                  Labelled(soup, key) ]) :
                          soup \in {Soup(HtmlUnescape(html_body))} }) } })

(***************************************************************************)
(* parse_email: the router.                                                *)
(***************************************************************************)
VARIABLES
    pc,          \* position of parse_email: idle, read, check, lower,
                 \* dispatch, extract, map, except, done
    request,     \* the request being served
    raw,         \* request.get_data(as_text=True) or ''
    data,        \* request.get_json(force=False, silent=True)
    body,        \* the effective body
    lowered,     \* body.lower()
    is_html,     \* the markup test of line 1351
    branch,      \* the branch of the if/elif chain that was taken
    calls,       \* the extractors called so far, in order
    result,      \* what the extractor returned or raised
    mapped,      \* the arguments to_nested was called with
    response,    \* the HTTP response
    call,        \* a function of the module called on its own: name and arguments
    ret          \* what that call returned

\* the variables of parse_email
router == <<pc, request, raw, data, body, lowered, is_html, branch, calls,
            result, mapped, response>>

vars == <<router, call, ret>>

\* no function is being called on its own
NoCall == [fn |-> "", args |-> <<>>, again |-> FALSE]

NoRequest == [raw |-> "", ctype |-> "", json |-> NotJson]

NoResult == [exc |-> "", flat |-> EmptyDict]

NoResponse == [status |-> 0, json |-> EmptyDict]

Init ==
    /\ pc = "idle"
    /\ request = NoRequest
    /\ raw = ""
    /\ data = DataNone
    /\ body = PyNone
    /\ lowered = ""
    /\ is_html = FALSE
    /\ branch = ""
    /\ calls = <<>>
    /\ result = NoResult
    /\ mapped = <<>>
    /\ response = NoResponse
    /\ call = NoCall
    /\ ret = ""

\* Flask calls parse_email for a POST to /api/parse
Receive ==
    /\ pc = "idle"
    /\ pc' = "read"
    /\ \E req \in Requests : request' = req
    /\ UNCHANGED <<raw, data, body, lowered, is_html, branch, calls, result,
                   mapped, response>>
    /\ UNCHANGED <<call, ret>>

\* lines 1338-1345
ReadPayload ==
    /\ pc = "read"
    /\ raw' = request.raw
    /\ data' = GetJson(request)
    /\ body' = IF Truthy(DataBody(GetJson(request)))
               THEN DataBody(GetJson(request))
               ELSE PyStr(request.raw)
    /\ pc' = "check"
    /\ UNCHANGED <<request, lowered, is_html, branch, calls, result, mapped, response>>
    /\ UNCHANGED <<call, ret>>

ErrorJson == [error |-> "No email content provided."]

\* the router without the early return of line 1348
CheckEmptyFallsThrough ==
    /\ pc = "check"
    /\ pc' = "lower"
    /\ UNCHANGED <<request, raw, data, body, lowered, is_html, branch, calls,
                   result, mapped, response>>
    /\ UNCHANGED <<call, ret>>

\* lines 1347-1348
CheckEmpty ==
    /\ pc = "check"
    /\ IF ~Truthy(body)
       THEN /\ response' = [status |-> 200, json |-> ErrorJson]
            /\ pc' = "done"
       ELSE /\ pc' = "lower"
            /\ UNCHANGED response
    /\ UNCHANGED <<request, raw, data, body, lowered, is_html, branch, calls,
                   result, mapped>>
    /\ UNCHANGED <<call, ret>>

\* ("<html" in lowered) or ("<body" in lowered) or ("<div" in lowered)
IsHtml(low) == Contains(low, "<html") \/ Contains(low, "<body") \/ Contains(low, "<div")

\* lines 1350-1351, outside the try block: body.lower() of a value that is
\* no str raises AttributeError, which nothing catches, and Flask answers 500
LowerBody ==
    /\ pc = "lower"
    /\ IF body.t = "str"
       THEN /\ lowered' = Lower(body.s)
            /\ is_html' = IsHtml(lowered')
            /\ pc' = "dispatch"
            /\ UNCHANGED response
       ELSE /\ response' = [status |-> 500, json |-> EmptyDict]
            /\ pc' = "done"
            /\ UNCHANGED <<lowered, is_html>>
    /\ UNCHANGED <<request, raw, data, body, branch, calls, result, mapped>>
    /\ UNCHANGED <<call, ret>>

\* the chain with its first two conditions in the other order
ClassifyBizFirst(low) ==
    IF Contains(low, "bizbuysell")
    THEN "bizbuysell"
    ELSE IF Contains(low, "fcbb.com") \/ Contains(low, "oms.fcbb.com")
            \/ Contains(low, "first choice business brokers")
    THEN "fcbb"
    ELSE IF Contains(low, "businessesforsale.com") \/ Contains(low, "businesses for sale")
    THEN "businessesforsale"
    ELSE IF Contains(low, "dealstream") \/ Contains(low, "leads.dealstream.com")
    THEN "dealstream"
    ELSE IF Contains(low, "murphybusiness.com") \/ Contains(low, "murphy business")
    THEN "murphybusiness"
    ELSE IF Contains(low, "businessbroker.net")
    THEN "businessbroker"
    ELSE IF Contains(low, "restaurants-for-sale.com")
            \/ Contains(low, "restaurants for sale online")
    THEN "restaurantsforsale"
    ELSE IF Contains(low, "franchiseresales.com") \/ Contains(low, "franchise resales")
    THEN "franchiseresales"
    ELSE IF Contains(low, "loopnet.com") \/ Contains(low, "loopnet")
    THEN "loopnet"
    ELSE "unknown"

\* the conditions of the if/elif chain, lines 1355-1406, in order
Classify(low) ==
    IF Contains(low, "fcbb.com") \/ Contains(low, "oms.fcbb.com")
       \/ Contains(low, "first choice business brokers")
    THEN "fcbb"
    ELSE IF Contains(low, "bizbuysell")
    THEN "bizbuysell"
    ELSE IF Contains(low, "businessesforsale.com") \/ Contains(low, "businesses for sale")
    THEN "businessesforsale"
    ELSE IF Contains(low, "dealstream") \/ Contains(low, "leads.dealstream.com")
    THEN "dealstream"
    ELSE IF Contains(low, "murphybusiness.com") \/ Contains(low, "murphy business")
    THEN "murphybusiness"
    ELSE IF Contains(low, "businessbroker.net")
    THEN "businessbroker"
    ELSE IF Contains(low, "restaurants-for-sale.com")
            \/ Contains(low, "restaurants for sale online")
    THEN "restaurantsforsale"
    ELSE IF Contains(low, "franchiseresales.com") \/ Contains(low, "franchise resales")
    THEN "franchiseresales"
    ELSE IF Contains(low, "loopnet.com") \/ Contains(low, "loopnet")
    THEN "loopnet"
    ELSE "unknown"

Dispatch ==
    /\ pc = "dispatch"
    /\ branch' = Classify(lowered)
    /\ pc' = IF Classify(lowered) = "unknown" THEN "map" ELSE "extract"
    /\ UNCHANGED <<request, raw, data, body, lowered, is_html, calls, result,
                   mapped, response>>
    /\ UNCHANGED <<call, ret>>

\* the extractor a branch calls
Extractor(b, html) ==
    CASE b = "fcbb" -> IF html THEN "extract_fcbb_html" ELSE "extract_fcbb_text"
      [] b = "bizbuysell" ->
            IF html THEN "extract_bizbuysell_html" ELSE "extract_bizbuysell_text"
      [] b = "businessesforsale" -> "extract_businessesforsale_text"
      [] b = "dealstream" ->
            IF html THEN "extract_dealstream_html" ELSE "extract_dealstream_text"
      [] b = "murphybusiness" ->
            IF html THEN "extract_murphy_html" ELSE "extract_murphy_text"
      [] b = "businessbroker" ->
            IF html THEN "extract_businessbroker_html" ELSE "extract_businessbroker_text"
      [] b = "restaurantsforsale" ->
            IF html THEN "extract_restaurantsforsale_html"
            ELSE "extract_restaurantsforsale_text"
      [] b = "franchiseresales" -> "extract_franchiseresales_text"
      [] b = "loopnet" -> IF html THEN "extract_loopnet_html" ELSE "extract_loopnet_text"

Returned(flat) == [exc |-> "", flat |-> flat]

\* body if not is_html else BeautifulSoup(body, "html.parser").get_text("\n")
PlainText(html, text) == IF html THEN get_text(Soup(text), NL, FALSE) ELSE text

\* the flat record or the exception of the extractor call of a branch
Extraction(b, html, text) ==
    CASE b = "fcbb" -> IF html THEN extract_fcbb_html(text) ELSE extract_fcbb_text(text)
      [] b = "bizbuysell" ->
            Returned(IF html THEN extract_bizbuysell_html(text)
                     ELSE extract_bizbuysell_text(text))
      [] b = "businessesforsale" ->
            Returned(extract_businessesforsale_text(PlainText(html, text)))
      [] b = "dealstream" ->
            Returned(IF html THEN extract_dealstream_html(text)
                     ELSE extract_dealstream_text(text))
      [] b = "murphybusiness" ->
            Returned(IF html THEN extract_murphy_html(text) ELSE extract_murphy_text(text))
      [] b = "businessbroker" ->
            Returned(IF html THEN extract_businessbroker_html(text)
                     ELSE extract_businessbroker_text(text))
      [] b = "restaurantsforsale" ->
            Returned(IF html THEN extract_restaurantsforsale_html(text)
                     ELSE extract_restaurantsforsale_text(text))
      [] b = "franchiseresales" ->
            Returned(extract_franchiseresales_text(PlainText(html, text)))
      [] b = "loopnet" ->
            Returned(IF html THEN extract_loopnet_html(text) ELSE extract_loopnet_text(text))

\* the extractor call of the branch taken
Extract ==
    /\ pc = "extract"
    /\ calls' = Append(calls, Extractor(branch, is_html))
    /\ result' = Extraction(branch, is_html, body.s)
    /\ pc' = IF result'.exc = "" THEN "map" ELSE "except"
    /\ UNCHANGED <<request, raw, data, body, lowered, is_html, branch, mapped, response>>
    /\ UNCHANGED <<call, ret>>

\* a mapper call that passes a note although nothing was raised
MapWithNote ==
    /\ pc = "map"
    /\ mapped' = <<branch, result.flat, "ok">>
    /\ response' = [status |-> 200, json |-> to_nested(branch, result.flat, "ok")]
    /\ pc' = "done"
    /\ UNCHANGED <<request, raw, data, body, lowered, is_html, branch, calls, result>>
    /\ UNCHANGED <<call, ret>>

\* an unknown branch that answers with an error object
MapMissAsError ==
    /\ pc = "map"
    /\ mapped' = IF branch = "unknown" THEN <<>> ELSE <<branch, result.flat, "">>
    /\ response' = [status |-> 200,
                    json |-> IF branch = "unknown"
                             THEN [error |-> "Unknown source."]
                             ELSE to_nested(branch, result.flat, "")]
    /\ pc' = "done"
    /\ UNCHANGED <<request, raw, data, body, lowered, is_html, branch, calls, result>>
    /\ UNCHANGED <<call, ret>>

\* return jsonify(to_nested(<source>, flat)); the unknown branch passes {}
Map ==
    /\ pc = "map"
    /\ mapped' = <<branch, result.flat, "">>
    /\ response' = [status |-> 200, json |-> to_nested(branch, result.flat, "")]
    /\ pc' = "done"
    /\ UNCHANGED <<request, raw, data, body, lowered, is_html, branch, calls, result>>
    /\ UNCHANGED <<call, ret>>

\* a handler that answers with an error object in place of a record
ExceptErrorObject ==
    /\ pc = "except"
    /\ mapped' = <<>>
    /\ response' = [status |-> 200, json |-> [error |-> "router_error: " \o result.exc]]
    /\ pc' = "done"
    /\ UNCHANGED <<request, raw, data, body, lowered, is_html, branch, calls, result>>
    /\ UNCHANGED <<call, ret>>

\* a handler that drops the message of the exception
ExceptSilent ==
    /\ pc = "except"
    /\ mapped' = <<"unknown", EmptyDict, "">>
    /\ response' = [status |-> 200, json |-> to_nested("unknown", EmptyDict, "")]
    /\ pc' = "done"
    /\ UNCHANGED <<request, raw, data, body, lowered, is_html, branch, calls, result>>
    /\ UNCHANGED <<call, ret>>

\* except Exception as outer, lines 1408-1409
Except ==
    /\ pc = "except"
    /\ mapped' = <<"unknown", EmptyDict, "router_error: " \o result.exc>>
    /\ response' = [status |-> 200,
                    json |-> to_nested("unknown", EmptyDict, "router_error: " \o result.exc)]
    /\ pc' = "done"
    /\ UNCHANGED <<request, raw, data, body, lowered, is_html, branch, calls, result>>
    /\ UNCHANGED <<call, ret>>

\* a worker that keeps the extraction and the branch of the request it served
ReturnKeepingResult ==
    /\ pc = "done"
    /\ pc' = "idle"
    /\ request' = NoRequest
    /\ raw' = ""
    /\ data' = DataNone
    /\ body' = PyNone
    /\ lowered' = ""
    /\ is_html' = FALSE
    /\ calls' = <<>>
    /\ mapped' = <<>>
    /\ response' = NoResponse
    /\ UNCHANGED <<branch, result>>
    /\ UNCHANGED <<call, ret>>

\* the response is sent and the worker waits for the next request; nothing of
\* the request is kept (the module holds no mutable global)
Return ==
    /\ pc = "done"
    /\ pc' = "idle"
    /\ request' = NoRequest
    /\ raw' = ""
    /\ data' = DataNone
    /\ body' = PyNone
    /\ lowered' = ""
    /\ is_html' = FALSE
    /\ branch' = ""
    /\ calls' = <<>>
    /\ result' = NoResult
    /\ mapped' = <<>>
    /\ response' = NoResponse
    /\ UNCHANGED <<call, ret>>

Next ==
    \/ Receive
    \/ Return
    \/ ReadPayload
    \/ CheckEmpty
    \/ LowerBody
    \/ Dispatch
    \/ Extract
    \/ Map
    \/ Except

Spec == Init /\ [][Next]_vars

(***************************************************************************)
(* Properties of parse_email.                                              *)
(***************************************************************************)
\* the canonical groups and the leaf keys each must hold
CanonicalGroups ==
    [ contact |-> {"first_name", "last_name", "email", "phone", "best_time_to_contact"},
      address |-> {"line1", "city", "state", "zip", "country"},
      listing |-> {"headline", "ref_id", "listing_id", "listing_url"},
      details |-> {"purchase_timeline", "investment_amount",
                   "services_interested_in", "heard_about"} ]

\* j holds every canonical group and leaf key, and every leaf is a string
SchemaComplete(j) ==
    /\ {"source", "comments"} \cup DOMAIN CanonicalGroups \subseteq DOMAIN j
    /\ j.source \in STRING
    /\ j.comments \in STRING
    /\ \A g \in DOMAIN CanonicalGroups :
          /\ CanonicalGroups[g] \subseteq DOMAIN j[g]
          /\ \A k \in DOMAIN j[g] : j[g][k] \in STRING

\* every leaf of the four groups, and comments, is the empty string
AllLeavesEmpty(j) ==
    /\ j.comments = ""
    /\ \A g \in DOMAIN CanonicalGroups : \A k \in DOMAIN j[g] : j[g][k] = ""

\* parse_email has produced its response (or has raised)
Done == pc = "done"

\* the extractor of the request raised
Faulted == Done /\ Len(calls) > 0 /\ result.exc # ""

\* C1, as claimed: for every request body, the empty one included, the JSON
\* response holds the groups source, contact, address, listing, details and
\* comments with all their leaf keys, and every leaf is a string.
C1_EveryResponseSchemaComplete ==
    Done => SchemaComplete(response.json)

\* C1, amended: an empty effective body is answered with the error object
\* and none of the canonical groups; an effective body that is a non-empty
\* JSON value and no string is answered with no JSON at all (status 500);
\* for every other request body, garbage, unrecognised-vendor and
\* extractor-faulting input included, the JSON response holds every
\* canonical group and leaf key and every leaf is a string.
C1_SchemaCompleteUnlessEmpty ==
    Done =>
        IF ~Truthy(body) THEN response.json = ErrorJson
        ELSE IF body.t # "str" THEN response = [status |-> 500, json |-> EmptyDict]
        ELSE response.status = 200 /\ SchemaComplete(response.json)

\* C1 witness: an FCBB lead was extracted and mapped
C1_Witness ==
    /\ Done
    /\ branch = "fcbb"
    /\ result.exc = ""
    /\ SchemaComplete(response.json)
    /\ response.json.contact.first_name = "Jane"

\* C2, as claimed: every request ends with HTTP status 200, whatever the
\* payload, a JSON object whose body field is a non-empty value that is no
\* string included.
C2_AlwaysStatus200 ==
    Done => response.status = 200

\* C3: when the effective body is missing or empty the response is HTTP
\* 200 with exactly {"error": "No email content provided."}, and neither
\* classification nor extraction nor mapping has run.
C3_EmptyBodyErrorObject ==
    Done /\ ~Truthy(body) =>
        /\ response = [status |-> 200, json |-> ErrorJson]
        /\ branch = ""
        /\ calls = <<>>
        /\ mapped = <<>>

\* C3 witness: a request declared JSON with an empty payload was answered
C3_Witness ==
    /\ Done
    /\ request.ctype = "application/json"
    /\ request.raw = ""
    /\ response.json = ErrorJson

\* the payload is the text of a JSON object with a non-empty body field
PayloadHasBody(req) ==
    req.json.t = "dict" /\ req.json.key = "body" /\ Truthy(req.json.val)

\* the payload has been read
PayloadRead == pc \notin {"idle", "read"}

\* C4, as claimed: when the payload parses as a JSON object with a present,
\* non-empty body field, the value classified and extracted is that field's
\* value; in every other case it is the raw payload text.
C4_JsonBodyWheneverPayloadParses ==
    PayloadRead =>
        /\ body = IF PayloadHasBody(request) THEN request.json.val
                  ELSE PyStr(request.raw)
        /\ branch # "" => lowered = Lower(body.s)

\* C4, amended: when the request is declared JSON (Content-Type
\* application/json) and its payload parses as a JSON object with a
\* present, non-empty body field, the value classified and extracted is
\* that field's value and not the raw payload; in every other case (not
\* declared JSON, not JSON, JSON without body, or empty body) it is the raw
\* payload text.
C4_JsonBodyWhenDeclaredJson ==
    PayloadRead =>
        /\ body = IF request.ctype = "application/json" /\ PayloadHasBody(request)
                  THEN request.json.val
                  ELSE PyStr(request.raw)
        /\ branch # "" => lowered = Lower(body.s)

\* C4 witness: the body field of a request declared JSON was classified,
\* not its payload
C4_Witness ==
    /\ Done
    /\ request.ctype = "application/json"
    /\ PayloadHasBody(request)
    /\ body = PyStr("FCBB.com")
    /\ body # PyStr(request.raw)
    /\ lowered = "fcbb.com"
    /\ branch = "fcbb"

\* the vendors in the order of the chain, each with its signatures
Signatures ==
    << [source |-> "fcbb",
        sigs |-> {"fcbb.com", "oms.fcbb.com", "first choice business brokers"}],
       [source |-> "bizbuysell", sigs |-> {"bizbuysell"}],
       [source |-> "businessesforsale",
        sigs |-> {"businessesforsale.com", "businesses for sale"}],
       [source |-> "dealstream", sigs |-> {"dealstream", "leads.dealstream.com"}],
       [source |-> "murphybusiness", sigs |-> {"murphybusiness.com", "murphy business"}],
       [source |-> "businessbroker", sigs |-> {"businessbroker.net"}],
       [source |-> "restaurantsforsale",
        sigs |-> {"restaurants-for-sale.com", "restaurants for sale online"}],
       [source |-> "franchiseresales",
        sigs |-> {"franchiseresales.com", "franchise resales"}],
       [source |-> "loopnet", sigs |-> {"loopnet.com", "loopnet"}] >>

\* the vendors a signature of which occurs in text, letter case ignored
Matching(text) ==
    The({ { i \in DOMAIN Signatures : \E sig \in Signatures[i].sigs : Contains(low, sig) } :
          low \in {Lower(text)} })

\* the earliest vendor of the order with a signature in text
FirstMatch(text) ==
    The({ IF m = {} THEN "unknown" ELSE Signatures[MinOf(m)].source : m \in {Matching(text)} })

\* the request has been classified
Classified == pc \in {"extract", "map", "except", "done"} /\ branch # ""

\* C5: classification chooses exactly one source, testing the signatures
\* case-insensitively in the order fcbb, bizbuysell, businessesforsale,
\* dealstream, murphybusiness, businessbroker, restaurantsforsale,
\* franchiseresales, loopnet: the earliest vendor with a signature in the
\* text is chosen and only its extractor runs; with no signature the source
\* is unknown and no extractor runs.
C5_FirstMatchWins ==
    Classified =>
        /\ branch = FirstMatch(body.s)
        /\ Done => calls = IF branch = "unknown" THEN <<>>
                           ELSE <<Extractor(branch, is_html)>>
        /\ Done /\ result.exc = "" => response.json.source = branch

\* C5 witness: a text with the signatures of FCBB, in capitals, and of
\* BizBuySell went to the FCBB extractor alone
C5_Witness ==
    /\ Done
    /\ Contains(body.s, "FCBB.com")
    /\ Contains(body.s, "bizbuysell")
    /\ branch = "fcbb"
    /\ calls = <<"extract_fcbb_text">>

\* C6, as claimed: after an extractor exception the extractor is called a
\* second time, on the plain-text projection, before the response is
\* produced, and when that call returns its record is mapped under the
\* vendor with a debug note.
C6_RetriesOnceOnPlainText ==
    Done /\ Len(calls) > 0 /\ "error_debug" \in DOMAIN response.json =>
        /\ Len(calls) = 2
        /\ calls[2] = Extractor(branch, FALSE)

\* C7, as claimed: once a request is classified as a vendor, the source of
\* the response is that vendor in every branch, the one where the
\* extractor raises included.
C7_SourceStaysVendor ==
    Done /\ branch \notin {"", "unknown"} => response.json.source = branch

\* C8: when extraction faults and is not recovered, the response is a
\* schema-complete record, every leaf of contact, address, listing and
\* details and comments is the empty string, and error_debug is a
\* non-empty string that carries the message of the failure.
C8_FaultGivesEmptyRecordWithNote ==
    Faulted =>
        /\ response.status = 200
        /\ SchemaComplete(response.json)
        /\ AllLeavesEmpty(response.json)
        /\ "error_debug" \in DOMAIN response.json
        /\ response.json.error_debug \in STRING
        /\ response.json.error_debug # ""
        /\ Contains(response.json.error_debug, result.exc)

\* C8 witness: extract_fcbb_text raised on the Domain line and the record
\* carries the message
C8_Witness ==
    /\ Faulted
    /\ calls = <<"extract_fcbb_text">>
    /\ AllLeavesEmpty(response.json)
    /\ response.json.error_debug = "router_error: Invalid IPv6 URL"

\* the mapper has been called
MapperCalled == Done /\ mapped # <<>>

\* C9: error_debug is a key of the response if and only if a non-empty
\* debug note was passed to the mapper, and no response of an extraction
\* that returned without raising has the key.
C9_DebugKeyIffNote ==
    MapperCalled =>
        /\ ("error_debug" \in DOMAIN response.json) <=> (mapped[3] # "")
        /\ Len(calls) > 0 /\ result.exc = "" => "error_debug" \notin DOMAIN response.json

\* C9 witness: an extraction returned a name and the response has no
\* error_debug
C9_Witness ==
    /\ MapperCalled
    /\ calls = <<"extract_murphy_text">>
    /\ result.exc = ""
    /\ mapped[3] = ""
    /\ response.json.contact.first_name = "Jane"
    /\ "error_debug" \notin DOMAIN response.json

\* text is not empty and holds no vendor signature
NoSignature(text) == text # "" /\ Matching(text) = {}

\* C10: an input text with no known vendor signature is answered with HTTP
\* 200, source "unknown", the complete canonical schema and no
\* error_debug.
C10_MissIsUnknownNotError ==
    Done /\ body.t = "str" /\ NoSignature(body.s) =>
        /\ response.status = 200
        /\ SchemaComplete(response.json)
        /\ response.json.source = "unknown"
        /\ "error_debug" \notin DOMAIN response.json

\* C10 witness: the text hello was answered as unknown
C10_Witness ==
    /\ Done
    /\ body = PyStr("hello")
    /\ calls = <<>>
    /\ response.json.source = "unknown"

\* the text holds no vendor signature and a labelled first name
LabelledUnknown(text) == NoSignature(text) /\ Contains(text, "First Name: Jane")

\* C11, as claimed: when classification gives unknown, a generic extractor
\* scans the text for common field labels and its result is mapped: for an
\* input with no vendor signature and the labelled field "First Name: Jane"
\* the leaf contact.first_name of the response holds the name.
C11_UnknownFieldsPopulated ==
    Done /\ body.t = "str" /\ LabelledUnknown(body.s) =>
        /\ calls # <<>>
        /\ response.json.contact.first_name = "Jane"

(***************************************************************************)
(* normalize_phone_us_e164 called on its own.                              *)
(***************************************************************************)
\* digit strings of the inputs have at most MaxDigits digits
MaxDigits == 14

\* the digits a digit string is filled up with
FillDigits == "234567890123456789"

\* valid ten-digit NANP numbers
NanpNumbers == {"2125550100", "4706437013", "9295550199"}

\* what a digit string of the inputs starts with
Leads == {"", "1", "01", "001", "0", "11", "7"}

\* the digit string of n digits that starts with lead
DigitRun(lead, n) == lead \o Slice(FillDigits, 1, n - Len(lead))

DigitRuns ==
    { DigitRun(lead, n) : lead \in Leads, n \in 0..MaxDigits } \cup NanpNumbers

Styles == {"plain", "plus", "dashes", "parens", "dots"}

\* the digits d written with the punctuation of a style
Punctuate(d, style) ==
    CASE style = "plain" -> d
      [] style = "plus" -> "+" \o Slice(d, 1, 1) \o " " \o From(d, 2)
      [] style = "dashes" -> Slice(d, 1, 3) \o "-" \o Slice(d, 4, 6) \o "-" \o From(d, 7)
      [] style = "parens" -> "(" \o Slice(d, 1, 3) \o ") " \o Slice(d, 4, 6) \o "-" \o From(d, 7)
      [] style = "dots" -> " " \o Slice(d, 1, 3) \o "." \o Slice(d, 4, 6) \o "." \o From(d, 7) \o " "

\* what follows the number: nothing, an extension, or text that is none
Tails ==
    {"", " ext 89", "x1234", " EXT. 12345678901 ", " extension #5", " Ext:-7" \o NL,
     " x", " ext 89.", " or 12", "x5 mobile"}

\* texts with no number
Words == {"call me", "Fax", "n/a", "x", "ext 12", "extension"}

\* what a rendering of a number may put before it
Prefixes == {"", "+1", "+1 ", "1", "1-", "001", "001 ", "01", "01."}

\* the extensions a rendering may end with
Extensions ==
    {"", " ext 89", "x1234", " EXT. 12345678901 ", " extension #5", " Ext:-7" \o NL}

\* the renderings of the number n: punctuation, a prefix, an extension
RenderingsOf(n) ==
    { prefix \o Punctuate(n, style) \o ext :
        prefix \in Prefixes, style \in Styles \ {"plus"}, ext \in Extensions }

PhoneInputs ==
    { Punctuate(d, style) \o tail : d \in DigitRuns, style \in Styles, tail \in Tails }
        \cup Words \cup UNION { RenderingsOf(n) : n \in NanpNumbers }

\* normalize_phone_us_e164(x) for a text x
Normalize ==
    /\ call.fn = ""
    /\ \E x \in PhoneInputs :
          /\ call' = [fn |-> "normalize_phone_us_e164", args |-> <<x>>, again |-> FALSE]
          /\ ret' = normalize_phone_us_e164(x)
    /\ UNCHANGED router

\* normalize_phone_us_e164 of what the call before returned
Renormalize ==
    /\ call.fn = "normalize_phone_us_e164"
    /\ ~call.again
    /\ call' = [fn |-> "normalize_phone_us_e164", args |-> <<ret>>, again |-> TRUE]
    /\ ret' = normalize_phone_us_e164(ret)
    /\ UNCHANGED router

\* the caller goes on
Forget ==
    /\ call.fn # ""
    /\ call' = NoCall
    /\ ret' = ""
    /\ UNCHANGED router

PhoneNext == Normalize \/ Renormalize \/ Forget

PhoneSpec == Init /\ [][PhoneNext]_vars

\* s without the white space at its end
RStripSpace(s) == RStripChars(s, WhiteSpace)

\* s ends with the text p, letter case ignored
EndsWith(s, p) == Len(s) >= Len(p) /\ Lower(From(s, Len(s) - Len(p) + 1)) = p

\* s without the last n characters
DropLast(s, n) == Slice(s, 1, Len(s) - n)

\* s without an extension marker at its end
CutMarker(s) ==
    IF EndsWith(s, "extension") THEN DropLast(s, 9)
    ELSE IF EndsWith(s, "ext") THEN DropLast(s, 3)
    ELSE IF EndsWith(s, "x") THEN DropLast(s, 1)
    ELSE s

\* the characters that may stand between an extension marker and its digits
MarkerSeparators == " \t\n\r.:#-"

\* s, or what stands before the extension marker that ends marked
RefStripFrom(s, noSpace, beforeDigits, marked) ==
    IF beforeDigits = noSpace \/ CutMarker(marked) = marked THEN s ELSE CutMarker(marked)

\* the reference procedure, step 1: a suffix of an extension marker, then
\* separators, then digits, then white space goes; read from the end of s
RefStripExtension(s) ==
    The({ The({ RefStripFrom(s, noSpace, beforeDigits,
                             RStripChars(beforeDigits, MarkerSeparators)) :
                beforeDigits \in {RStripChars(noSpace, Digits)} }) :
          noSpace \in {RStripSpace(s)} })

\* the reference procedure, steps 3 and 4, on the digits d
RefNational(d) ==
    CASE Len(d) = 13 /\ Slice(d, 1, 3) = "001" -> From(d, 4)
      [] Len(d) = 12 /\ Slice(d, 1, 2) = "01" -> From(d, 3)
      [] Len(d) = 11 /\ Slice(d, 1, 1) = "1" -> From(d, 2)
      [] Len(d) = 10 -> d
      [] Len(d) > 10 /\ ~(Len(d) = 13 /\ Slice(d, 1, 3) = "001")
                     /\ ~(Len(d) = 12 /\ Slice(d, 1, 2) = "01")
                     /\ ~(Len(d) = 11 /\ Slice(d, 1, 1) = "1") -> From(d, Len(d) - 9)
      [] Len(d) < 10 -> ""

\* the reference procedure
RefNormalize(x) ==
    The({ IF national = "" THEN "" ELSE "+1" \o national :
          national \in {RefNational(DigitsOf(RefStripExtension(x)))} })

\* "+1" followed by exactly ten digits
IsE164(s) == Len(s) = 12 /\ Slice(s, 1, 2) = "+1" /\ \A i \in 3..12 : IsDigit(At(s, i))

\* normalize_phone_us_e164 has returned
Normalized == call.fn = "normalize_phone_us_e164"

\* C12: for every input string normalize_phone_us_e164 returns what the
\* reference procedure returns (strip a trailing extension suffix, keep the
\* digits, reduce 001 or 01 before ten digits, accept ten digits or eleven
\* with a leading 1, else take the last ten digits if there are ten), and
\* the result is the empty string or "+1" followed by exactly ten digits.
C12_EqualsReferenceProcedure ==
    Normalized =>
        /\ ret = RefNormalize(call.args[1])
        /\ ret = "" \/ IsE164(ret)

\* C12 witness: a number in parentheses with an extension of eleven digits
\* gave its ten national digits
C12_Witness ==
    /\ Normalized
    /\ call.args = <<"(470) 643-7013 EXT. 12345678901 ">>
    /\ ret = "+14706437013"

\* C13: normalize_phone_us_e164 is idempotent: called on what it returned
\* it returns the same value; a value "+1" followed by ten digits comes
\* back unchanged.
C13_PhoneIdempotent ==
    Normalized =>
        /\ call.again => ret = call.args[1]
        /\ IsE164(call.args[1]) => ret = call.args[1]

\* C13 witness: the result of a rendering with an extension was normalized
\* again and came back
C13_Witness ==
    /\ Normalized
    /\ call.again
    /\ call.args = <<"+14706437013">>
    /\ ret = "+14706437013"

\* C14: every rendering of a valid ten-digit NANP number N that adds only
\* punctuation (spaces, dots, dashes, parentheses, a leading +1, 1, 001 or
\* 01) and a trailing extension normalizes to "+1" followed by N: the
\* digits of the extension are no part of the result and do not shift it.
C14_RenderingsGiveOneValue ==
    Normalized =>
        \A n \in NanpNumbers : call.args[1] \in RenderingsOf(n) => ret = "+1" \o n

\* C14 witness: the number behind 001, in parentheses and with an
\* extension, gave "+1" and its ten digits
C14_Witness ==
    /\ Normalized
    /\ call.args = <<"001 (212) 555-0100 extension #5">>
    /\ ret = "+12125550100"

(***************************************************************************)
(* The text extractors called on their own, on labelled values.            *)
(***************************************************************************)
\* labels of an extractor whose value goes to a key of the record as it is
LabelKeys ==
    [ extract_bizbuysell_text |->
        { <<"Contact Zip", "contact_zip">>, <<"Able to Invest", "investment_amount">>,
          <<"Purchase Within", "purchase_timeline">>, <<"Ref ID", "ref_id">> },
      extract_fcbb_text |->
        { <<"First Name", "first_name">>, <<"Last Name", "last_name">>,
          <<"Email Address", "email">>, <<"Address", "address">>,
          <<"Postal Code", "contact_zip">> },
      extract_businessbroker_text |->
        { <<"First Name", "first_name">>, <<"Last Name", "last_name">>,
          <<"Email", "email">>, <<"City", "city">>, <<"State", "state">> },
      extract_murphy_text |->
        { <<"Email", "email">>, <<"ZIP/Postal Code", "contact_zip">>,
          <<"Services Interested In", "services_interested_in">> },
      extract_franchiseresales_text |->
        { <<"Contact E-mail", "email">>, <<"Contact Message", "comments">> },
      extract_businessesforsale_text |-> { <<"Email", "email">> } ]

\* further labels an extractor recognises
MoreLabels ==
    [ extract_bizbuysell_text |-> {"Comments"},
      extract_fcbb_text |-> {"Listing Description"},
      extract_businessbroker_text |-> {"Country"},
      extract_murphy_text |-> {"Phone"},
      extract_franchiseresales_text |-> {"Contact Phone"},
      extract_businessesforsale_text |-> {"Tel"} ]

\* the labels of extractor e that may follow a value
Recognised(e) == { lk[1] : lk \in LabelKeys[e] } \cup MoreLabels[e]

\* the extractors that bound a value by the next label
LabelBounded == {"extract_bizbuysell_text", "extract_fcbb_text"}

\* the extractors that read a value with ([^\n]+) or (.+): to the end of the line
LineBounded == DOMAIN LabelKeys \ LabelBounded

Foos == {"foo", "Jane Doe"}

Bars == {"bar", "12345"}

\* "A: foo B: bar"
Adjacent(a, foo, b, bar) == a \o ": " \o foo \o " " \o b \o ": " \o bar

\* "A: foo" and a line with no label behind it
Continued(a, foo) == a \o ": " \o foo \o NL \o "more text"

LabelTexts(e) ==
    { Adjacent(lk[1], foo, b, bar) :
        lk \in LabelKeys[e], foo \in Foos, b \in Recognised(e), bar \in Bars }
    \cup { Continued(lk[1], foo) : lk \in LabelKeys[e], foo \in Foos }

\* the record extractor e returns for text
Apply(e, text) ==
    CASE e = "extract_bizbuysell_text" -> extract_bizbuysell_text(text)
      [] e = "extract_fcbb_text" -> extract_fcbb_text(text).flat
      [] e = "extract_businessbroker_text" -> extract_businessbroker_text(text)
      [] e = "extract_murphy_text" -> extract_murphy_text(text)
      [] e = "extract_franchiseresales_text" -> extract_franchiseresales_text(text)
      [] e = "extract_businessesforsale_text" -> extract_businessesforsale_text(text)

\* an extractor is called on a text of labelled values
ExtractLabelled ==
    /\ call.fn = ""
    /\ \E e \in DOMAIN LabelKeys : \E text \in LabelTexts(e) :
          /\ call' = [fn |-> e, args |-> <<text>>, again |-> FALSE]
          /\ ret' = Apply(e, text)
    /\ UNCHANGED router

LabelNext == ExtractLabelled \/ Forget

LabelSpec == Init /\ [][LabelNext]_vars

\* an extractor has returned the record of a text of labelled values
LabelsExtracted == call.fn \in DOMAIN LabelKeys

\* the text of the call is "A: foo B: bar" with B another label than A
IsAdjacent(lk, foo, b, bar) == b # lk[1] /\ call.args[1] = Adjacent(lk[1], foo, b, bar)

\* C15, as claimed: for every extractor, the value extracted for A from
\* "A: foo B: bar", A and B recognised labels, is "foo" and never
\* "foo B: bar".
C15_EveryExtractorStopsAtNextLabel ==
    LabelsExtracted =>
        \A lk \in LabelKeys[call.fn], foo \in Foos, b \in Recognised(call.fn), bar \in Bars :
            IsAdjacent(lk, foo, b, bar) => ret[lk[2]] = foo

\* C15, amended: for the BizBuySell text extractor and the label-based
\* parse of the FCBB text extractor the value extracted for A from
\* "A: foo B: bar" is "foo", and when no label follows the value runs to
\* the end of the text (FCBB: with each run of white space as one blank);
\* the text extractors of Murphy, BusinessBroker.net, FranchiseResales and
\* BusinessesForSale end a value at the end of its line, not at the next
\* label: there the value extracted for A is "foo B: bar", and "foo" when
\* nothing follows on the line.
C15_TwoExtractorsStopAtNextLabel ==
    LabelsExtracted =>
        \A lk \in LabelKeys[call.fn], foo \in Foos :
            /\ \A b \in Recognised(call.fn), bar \in Bars :
                  IsAdjacent(lk, foo, b, bar) =>
                      ret[lk[2]] = IF call.fn \in LabelBounded THEN foo
                                   ELSE foo \o " " \o b \o ": " \o bar
            /\ call.args[1] = Continued(lk[1], foo) =>
                  ret[lk[2]] = CASE call.fn = "extract_bizbuysell_text" ->
                                        foo \o NL \o "more text"
                                 [] call.fn = "extract_fcbb_text" -> foo \o " more text"
                                 [] OTHER -> foo

\* C15 witness: the BizBuySell text extractor ended the value of Ref ID at
\* the label Contact Zip
C15_Witness ==
    /\ call.fn = "extract_bizbuysell_text"
    /\ call.args = <<"Ref ID: foo Contact Zip: 12345">>
    /\ ret.ref_id = "foo"
    /\ ret.contact_zip = "12345"

(***************************************************************************)
(* clean_comments_block called on its own.                                 *)
(***************************************************************************)
\* a raw comment block is made of at most MaxCommentLines parts
MaxCommentLines == 2

\* the parts raw comment blocks are made of: message lines, blank lines,
\* separator lines, lines with a boilerplate phrase, and blocks of such lines
CommentLines ==
    { "Hi, call me", "price?  ", "", "  ", "--", "---", " ____ ",
      "CONFIDENTIALITY NOTICE: secret", "this e-mail is confidential",
      "ok. Terms of Use and Disclaimers Apply.", "Be aware! Online banking fraud",
      "do not disseminate", "see email",
      "do not disseminate" \o NL \o "---",
      "Hi" \o NL \o NL \o " ____ " \o NL \o "after" }

CommentBlocks ==
    { JoinNewline(ls) : ls \in UNION { [1..n -> CommentLines] : n \in 0..MaxCommentLines } }

\* clean_comments_block(x) for a raw comment block x
Clean ==
    /\ call.fn = ""
    /\ \E x \in CommentBlocks :
          /\ call' = [fn |-> "clean_comments_block", args |-> <<x>>, again |-> FALSE]
          /\ ret' = clean_comments_block(x)
    /\ UNCHANGED router

CommentsNext == Clean \/ Forget

CommentsSpec == Init /\ [][CommentsNext]_vars

\* where the lines of s that are separator lines start
SeparatorLines(s) == { i \in 1..Len(s) : SeparatorAt(s, i) }

\* where a boilerplate phrase starts in s
BoilerplatePhrases(s) ==
    The({ { i \in 1..Len(low) : \E n \in 1..3 : BoilerplateAt(low, n, i) } :
          low \in {Lower(s)} })

\* the message: s before its first separator line, and of that what stands
\* before the first boilerplate phrase
Message(s) ==
    The({ CutAtFirst(head, BoilerplatePhrases(head)) :
          head \in {CutAtFirst(s, SeparatorLines(s))} })

\* the lines without the blanks and tabs at their ends, the empty ones left out
RECURSIVE TidyLines(_)
TidyLines(lines) ==
    IF lines = <<>> THEN <<>>
    ELSE The({ (IF l = "" THEN <<>> ELSE <<l>>) \o TidyLines(Tail(lines)) :
               l \in {RStripChars(Head(lines), " \t")} })

\* s with no blank or tab at the end of a line, no empty line, and no white
\* space at its ends
Tidy(s) == Strip(JoinNewline(TidyLines(SplitOn(s, NL))))

\* clean_comments_block has returned
Cleaned == call.fn = "clean_comments_block"

FlatSchemaKeys ==
    {"first_name", "last_name", "email", "phone", "address", "city", "state", "country",
     "contact_zip", "ref_id", "listing_id", "headline", "listing_url", "purchase_timeline",
     "investment_amount", "services_interested_in", "heard_about", "comments"}

\* the flat-schema keys the return statements of a branch's extractors leave out
MissingKeys(b) ==
    CASE b = "dealstream" -> FlatSchemaKeys \ {"first_name", "last_name", "email", "phone", "ref_id", "headline", "listing_url"}
      [] b \in {"bizbuysell", "murphybusiness"} -> {"address", "city", "state", "country"}
      [] b = "fcbb" -> {"country"}
      [] OTHER -> {}

\* an extractor has returned a flat record to parse_email
Extracted == Done /\ calls # <<>> /\ result.exc = ""

\* C17, as stated: every flat result of every vendor extractor holds every key
\* of the flat schema, with a string for its value
C17_EveryFlatKeyPresent ==
    Extracted => /\ FlatSchemaKeys \subseteq DOMAIN result.flat
                 /\ \A k \in DOMAIN result.flat : result.flat[k] \in STRING

\* C17, amended: a flat result holds the flat-schema keys its extractor
\* returns, which are all of them but for dealstream (only the name parts,
\* email, phone, ref_id, headline and listing_url), bizbuysell and murphy (no
\* address, city, state, country) and fcbb (no country); every value is a
\* string, and the mapper emits every canonical key whatever is missing
C17_FlatKeysOfEachExtractor ==
    Extracted => /\ DOMAIN result.flat \cap FlatSchemaKeys = FlatSchemaKeys \ MissingKeys(branch)
                 /\ \A k \in DOMAIN result.flat : result.flat[k] \in STRING
                 /\ SchemaComplete(response.json)

\* a DealStream request whose extractor returned no address key
C17_Witness ==
    /\ Extracted
    /\ calls = <<"extract_dealstream_html">>
    /\ "address" \notin DOMAIN result.flat
    /\ response.json.address.line1 = ""

(***************************************************************************)
(* to_nested on its own: C18, C19.                                         *)
(***************************************************************************)
\* the keys an extractor's return statement can hold that to_nested reads
MapperKeys == FlatSchemaKeys \cup {"originating_website", "current_site_page_url", "domain"}

\* the keys the listing_url of to_nested is taken from, in order
UrlKeys == <<"listing_url", "originating_website", "current_site_page_url">>

MapperSources == {"fcbb", "bizbuysell", "unknown"}

\* values of a flat field: plain, with the phrase in several letter cases and
\* inside other text, nearly the phrase, and a URL
FieldValues ==
    {"", "Jane", "Not Disclosed", "price NOT DISCLOSED yet ", "not  disclosed", "http://a.test/p"}

\* a flat record over MapperKeys with at most three values set
FlatWith(k1, v1, k2, v2, v3) ==
    [k \in MapperKeys |->
        IF k = k1 THEN v1
        ELSE IF k = k2 THEN v2
        ELSE IF k = UrlKeys[3] THEN v3 ELSE ""]

\* bodies of FCBB mail carrying the two labelled URLs
FcbbBodies ==
    { "Originating Website: http://a.test/p",
      "First Name: Jane" \o NL \o "Current Site Page URL: http://b.test/q",
      "Originating Website: http://a.test/p" \o NL \o "Current Site Page URL: Not Disclosed",
      "<div>Originating Website: http://a.test/p</div>",
      "hello" }

\* to_nested(source, flat) for a flat record built by hand
MapFlat ==
    /\ call.fn = ""
    /\ \E source \in MapperSources, k1 \in MapperKeys, k2 \in {UrlKeys[i] : i \in 1..Len(UrlKeys)} :
       \E v1, v2 \in FieldValues, v3 \in {"", "http://c.test/r"} :
          /\ call' = [fn |-> "to_nested", args |-> <<source, FlatWith(k1, v1, k2, v2, v3)>>, again |-> FALSE]
          /\ ret' = to_nested(source, FlatWith(k1, v1, k2, v2, v3), "")
    /\ UNCHANGED router

\* to_nested("fcbb", flat) for the flat record of an FCBB extractor, lines 1358-1361
MapFcbb ==
    /\ call.fn = ""
    /\ \E b \in FcbbBodies :
          /\ Extraction("fcbb", Contains(b, "<div"), b).exc = ""
          /\ call' = [fn |-> "to_nested", args |-> <<"fcbb", Extraction("fcbb", Contains(b, "<div"), b).flat>>, again |-> FALSE]
          /\ ret' = to_nested("fcbb", Extraction("fcbb", Contains(b, "<div"), b).flat, "")
    /\ UNCHANGED router

MapperNext == MapFlat \/ MapFcbb \/ Forget

MapperSpec == Init /\ [][MapperNext]_vars

\* to_nested has returned ret for the source and the flat record of call.args
Mapped == call.fn = "to_nested"

\* a value holds the phrase "not disclosed", in any letter case
NotDisclosed(v) == Contains(Lower(v), "not disclosed")

\* the leaf of the canonical record j that the flat key k is emitted at
Leaf(j, k) ==
    CASE k = "comments" -> j.comments
      [] k \in {"first_name", "last_name", "email", "phone"} -> j.contact[k]
      [] k = "address" -> j.address.line1
      [] k = "contact_zip" -> j.address.zip
      [] k \in {"city", "state", "country"} -> j.address[k]
      [] k \in {"purchase_timeline", "investment_amount", "services_interested_in", "heard_about"} -> j.details[k]
      [] OTHER -> j.listing[k]

\* the value of a flat key once the undisclosed ones are blanked
Disclosed(flat, k) == IF k \notin DOMAIN flat \/ NotDisclosed(flat[k]) THEN "" ELSE flat[k]

FirstNonEmpty(vs) ==
    IF \A i \in 1..Len(vs) : vs[i] = "" THEN ""
    ELSE vs[CHOOSE i \in 1..Len(vs) : vs[i] # "" /\ \A j \in 1..(i - 1) : vs[j] = ""]

\* the flat record is one an FCBB extractor returned (lines 888-910, 954-976, 1026-1048)
FromFcbbExtractor(flat) == "listing_description" \in DOMAIN flat

\* C19: canonical listing.listing_url is the first non-empty of flat
\* listing_url, originating_website, current_site_page_url for every source
\* but fcbb; for fcbb it is the flat listing_url alone, so the response for an
\* FCBB extraction has listing.listing_url empty while originating_website and
\* current_site_page_url carry their extracted values
C19_ListingUrlBackfill ==
    Mapped =>
        /\ ret.listing.listing_url =
              IF call.args[1] = "fcbb" THEN Disclosed(call.args[2], UrlKeys[1])
              ELSE FirstNonEmpty([i \in 1..Len(UrlKeys) |-> Disclosed(call.args[2], UrlKeys[i])])
        /\ ret.listing.originating_website = Disclosed(call.args[2], UrlKeys[2])
        /\ ret.listing.current_site_page_url = Disclosed(call.args[2], UrlKeys[3])
        /\ call.args[1] = "fcbb" /\ FromFcbbExtractor(call.args[2]) => ret.listing.listing_url = ""

\* an FCBB extraction with an originating website and no listing_url
C19_Witness ==
    /\ Mapped
    /\ call.args[1] = "fcbb"
    /\ FromFcbbExtractor(call.args[2])
    /\ call.args[2]["originating_website"] = "http://a.test/p"
    /\ ret.listing.listing_url = ""
    /\ ret.listing.originating_website = "http://a.test/p"

\* a hand-built record whose listing_url comes from current_site_page_url
C19_Backfilled ==
    /\ Mapped
    /\ call.args[1] = "bizbuysell"
    /\ call.args[2]["listing_url"] = "Not Disclosed"
    /\ call.args[2]["originating_website"] = ""
    /\ ret.listing.listing_url = "http://c.test/r"

(***************************************************************************)
(* Requests one after another: C20.  The variables of parse_email are      *)
(* locals of one call and request is local to its context, so a worker is  *)
(* modelled as serving one request at a time; call and ret keep an earlier *)
(* request, its body and its response for the comparison.                  *)
(***************************************************************************)
\* a vendor body on two lines whose extractor raises
RaisingText == "FCBB.com" \o NL \o "Domain: [x"

RepeatTexts == ShortTexts \cup {RaisingText}

\* each text as a plain payload and as the body field of a JSON payload, the
\* latter declared as JSON or not
RepeatRequests ==
    { [raw |-> t, ctype |-> "text/plain", json |-> NotJson] : t \in RepeatTexts }
    \cup { [raw |-> ObjectText("body", PyStr(t)), ctype |-> c, json |-> JsonObject("body", PyStr(t))] : t \in RepeatTexts, c \in ContentTypes }
    \cup { [raw |-> ObjectText("body", v), ctype |-> "application/json", json |-> JsonObject("body", v)] : v \in NonStringValues }

\* Flask calls parse_email for a POST to /api/parse
ReceiveRepeat ==
    /\ pc = "idle"
    /\ pc' = "read"
    /\ \E req \in RepeatRequests : request' = req
    /\ UNCHANGED <<raw, data, body, lowered, is_html, branch, calls, result, mapped, response>>
    /\ UNCHANGED <<call, ret>>

\* an observer keeps a served request, its body and its response
Remember ==
    /\ pc = "done"
    /\ call.fn = ""
    /\ call' = [fn |-> "parse_email", args |-> <<body, request>>, again |-> FALSE]
    /\ ret' = response
    /\ UNCHANGED router

RepeatNext ==
    \/ ReceiveRepeat
    \/ Return
    \/ ReadPayload
    \/ CheckEmpty
    \/ LowerBody
    \/ Dispatch
    \/ Extract
    \/ Map
    \/ Except
    \/ Remember
    \/ Forget

RepeatSpec == Init /\ [][RepeatNext]_vars

\* an earlier request with the body of the request now answered is kept
SameBodyAsBefore == Done /\ call.fn = "parse_email" /\ call.args[1] = body

\* no local of a served request is left when the worker waits
NothingKept ==
    router = <<"idle", NoRequest, "", DataNone, PyNone, "", FALSE, "", <<>>, NoResult, <<>>, NoResponse>>

Phase ==
    CASE pc = "idle" -> "Idle"
      [] pc \in {"read", "check", "lower", "dispatch"} -> "Start"
      [] pc = "extract" \/ (pc = "map" /\ calls = <<>>) -> "Classified"
      [] pc \in {"map", "except"} /\ Len(calls) = 1 -> "Extracting"
      [] pc \in {"map", "except"} /\ Len(calls) > 1 -> "ExtractingDegraded"
      [] pc = "done" /\ response.status # 200 -> "Crashed"
      [] pc = "done" /\ response.status = 200 /\ response.json = ErrorJson -> "Rejected"
      [] pc = "done" /\ response.status = 200 /\ response.json # ErrorJson ->
            IF "error_debug" \in DOMAIN response.json THEN "Failed" ELSE "Mapped"

\* the steps of the state machine of the dispatcher: Start, Classified,
\* Extracting, then Mapped or ExtractingDegraded followed by Mapped or
\* Failed; a request without content is rejected at Start, and a terminal
\* state gives way to the next request
DispatcherSteps ==
    { <<"Idle", "Start">>, <<"Start", "Start">>, <<"Start", "Classified">>,
      <<"Start", "Rejected">>, <<"Classified", "Extracting">>,
      <<"Extracting", "Mapped">>, <<"Extracting", "ExtractingDegraded">>,
      <<"ExtractingDegraded", "Mapped">>, <<"ExtractingDegraded", "Failed">>,
      <<"Mapped", "Idle">>, <<"Failed", "Idle">>, <<"Rejected", "Idle">> }

\* C21, as claimed: every step of a request is a step of the dispatcher state
\* machine, so that a request never goes back to a state it has left, reaches
\* Failed only through ExtractingDegraded and enters that state at most once
C21_RunsDispatcherMachine == [][(<<Phase, Phase'>> \in DispatcherSteps)]_vars

(***************************************************************************)
(* C22.  The choice between the markup-aware and the plain-text path.      *)
(***************************************************************************)
\* one signature line for each branch of the chain, and one for none
SignatureLines ==
    { "FCBB.com", "bizbuysell", "Businesses For Sale", "dealstream", "murphy business",
      "BusinessBroker.net", "restaurants-for-sale.com", "franchise resales", "LoopNet", "hello" }

\* tags a payload can carry, and none
Tags == { "", "<div>", "<DIV class=x>", "<html>", "<body>", "<p>", "<table>", "<br/>" }

RouteTexts ==
    { sig \o NL \o tag \o "First Name: Jane" : sig \in SignatureLines, tag \in Tags }
    \cup {RaisingText}

\* Flask calls parse_email for a POST to /api/parse
ReceiveRoute ==
    /\ pc = "idle"
    /\ pc' = "read"
    /\ \E t \in RouteTexts : request' = [raw |-> t, ctype |-> "text/plain", json |-> NotJson]
    /\ UNCHANGED <<raw, data, body, lowered, is_html, branch, calls, result, mapped, response>>
    /\ UNCHANGED <<call, ret>>

RouteNext ==
    \/ ReceiveRoute
    \/ Return
    \/ ReadPayload
    \/ CheckEmpty
    \/ LowerBody
    \/ Dispatch
    \/ Extract
    \/ Map
    \/ Except

RouteSpec == Init /\ [][RouteNext]_vars

\* the payload holds a markup delimiter
HasMarkup(s) == Contains(s, "<")

\* the payload holds the opening of an html, body or div tag, in any letter case
HasRoutingTag(s) == \E t \in {"<html", "<body", "<div"} : Contains(Lower(s), t)

\* the extractor of the branch has been called
Routed == pc \in {"map", "except", "done"} /\ calls # <<>>

\* the call made is the one the markup-aware path (if markup) or the
\* plain-text path makes, tags being stripped first for a text-only vendor
RoutedAs(markup) ==
    /\ calls = <<Extractor(branch, markup)>>
    /\ result = Extraction(branch, markup, body.s)

\* C22, as stated: the markup-aware path is taken whenever the payload holds
\* markup delimiters and the plain-text path only when it holds none,
\* whichever the tags
C22_MarkupAlwaysToMarkupPath == Routed => RoutedAs(HasMarkup(body.s))

\* what lines 1350-1351 do: the markup-aware path is taken exactly when the
\* lower-cased payload holds "<html", "<body" or "<div"; a payload whose tags
\* are all of other kinds goes to the plain-text extractor with its tags in
\* place
RoutingTagsDecide == Routed => RoutedAs(HasRoutingTag(body.s))

(***************************************************************************)
(* parse_address_loose on its own: C23, C24.                               *)
(***************************************************************************)
\* the segments of a line before its city
Streets == { <<>>, <<"12 High St">>, <<"Unit 4", "12  High St">> }

\* a segment with its runs of white space collapsed
Collapsed(seg) == IF seg = "12  High St" THEN "12 High St" ELSE seg

Cities == { "", "Springfield", "Leeds" }

\* a state code is absent, written after the city in its segment, or written
\* as a segment of its own
StateForms == { "none", "same", "own" }

UsZips == { "62704", "62704-1234" }

\* postal tokens of the three kinds, and none
Postals == UsZips \cup { "", "LS1 4AP", "K1A 0B1" }

\* how a line ends after its postal token
CountryTails == { "", ", USA", " UK.", ", Canada", " . " }

\* the country a line ends with
CountryOf(tail, default_country) ==
    CASE tail = ", USA" -> "United States"
      [] tail = " UK." -> "United Kingdom"
      [] tail = ", Canada" -> "Canada"
      [] OTHER -> default_country

DefaultCountries == { "", "United States" }

\* the segments of a line before its postal token
SegmentsOf(street, city, form) ==
    street \o (CASE form = "none" -> IF city = "" THEN <<>> ELSE <<city>>
                 [] form = "same" -> <<city \o " IL">>
                 [] form = "own" -> (IF city = "" THEN <<>> ELSE <<city>>) \o <<"IL">>)

\* the line: its segments with "; " after the first and ", " after the others,
\* the postal token and the country
LineOf(segs, postal, tail) ==
    (IF Len(segs) > 1 THEN segs[1] \o "; " \o JoinComma(Tail(segs)) ELSE JoinComma(segs))
        \o (IF segs # <<>> /\ postal # "" THEN " " ELSE "") \o postal \o tail

\* the forms a state code can take after a city and before a postal token: a
\* state code stands only in a line with a US ZIP or with no postal token, and
\* in the segment of a city only where there is a city
FormsFor(city, postal) ==
    { f \in StateForms :
        \/ f = "none"
        \/ postal \in UsZips \cup {""} /\ (f = "same" => city # "") }

\* the lines parse_address_loose is called on, each with what it was made of
AddressCases ==
    UNION { { [ addr |-> LineOf(SegmentsOf(street, cp[1], form), cp[2], tail),
                segs |-> SegmentsOf([i \in DOMAIN street |-> Collapsed(street[i])], cp[1], "none"),
                before |-> LineOf(SegmentsOf([i \in DOMAIN street |-> Collapsed(street[i])], cp[1], form), "", ""),
                state |-> IF form = "none" THEN "" ELSE "IL",
                form |-> form,
                postal |-> cp[2],
                tail |-> tail ] :
              street \in Streets, tail \in CountryTails, form \in FormsFor(cp[1], cp[2]) } :
            cp \in Cities \X Postals }

\* parse_address_loose(addr, default_country)
ParseAddress ==
    /\ call.fn = ""
    /\ \E c \in AddressCases, d \in DefaultCountries :
          /\ call' = [fn |-> "parse_address_loose", args |-> <<c.addr, d>>, again |-> FALSE]
          /\ ret' = parse_address_loose(c.addr, d)
    /\ UNCHANGED router

AddressNext == ParseAddress \/ Forget

AddressSpec == Init /\ [][AddressNext]_vars

\* parse_address_loose has returned ret for the line of the case c
ParsedCase(c) == call.fn = "parse_address_loose" /\ call.args[1] = c.addr

\* C23, as claimed: when a postal pattern matches, the text before the postal
\* token is split on commas and semicolons; the last segment, the state code
\* set aside, is the city and the earlier segments alone form line1, so the
\* city is not repeated in line1 and no segment is dropped
C23_CityNotRepeatedInLine1 ==
    \A c \in AddressCases :
        ParsedCase(c) /\ c.postal # "" =>
            /\ ret.zip = c.postal
            /\ ret.state = c.state
            /\ ret.city = LastOf(c.segs)
            /\ ret.address1 = AllButLast(c.segs)

\* the five keys of the record parse_address_loose returns
AddressKeys == {"address1", "city", "state", "zip", "country"}

\* C24, as stated: when no postal pattern matches, city, state and zip are
\* empty and line1 is the entire input line, in a record of five keys
C24_Line1IsWholeInput ==
    \A c \in AddressCases :
        ParsedCase(c) /\ c.postal = "" =>
            /\ DOMAIN ret = AddressKeys
            /\ ret.city = "" /\ ret.state = "" /\ ret.zip = ""
            /\ ret.address1 = call.args[1]

\* C24, amended: when no postal pattern matches, the call returns a record
\* of five keys with city, state and zip empty; line1 is the input line with
\* its white space collapsed, the country it ends with cut off and spaces,
\* commas and periods trimmed from its ends, and country is that country,
\* or the default
C24_Line1IsInputWithoutCountry ==
    \A c \in AddressCases :
        ParsedCase(c) /\ c.postal = "" =>
            /\ DOMAIN ret = AddressKeys
            /\ ret.city = "" /\ ret.state = "" /\ ret.zip = ""
            /\ ret.address1 = c.before
            /\ ret.country = CountryOf(c.tail, call.args[2])

\* a line without a postal token that ends with a country
C24_Witness ==
    /\ call.fn = "parse_address_loose"
    /\ call.args = <<"Unit 4; 12  High St, Leeds UK.", "">>
    /\ ret = Address("Unit 4; 12 High St, Leeds", "", "", "", "United Kingdom")

(***************************************************************************)
(* The FCBB extractors on mail without labels: C25.                        *)
(***************************************************************************)
\* first lines: the name of the lead
NameLines == { "Jane Doe", "Jane", "Dr Jane Q Doe" }

\* second lines: a listing number and a headline, and lines that are neither
ListingLines ==
    { "101-22334 Corner Cafe", "101-2 9 to 5 Diner", "101-2 12345", "101-2 ---",
      "470-643 7013", "101-22334", "Corner Cafe", "12-345 Cafe", "AB-12 Cafe", "101 - 2 Cafe" }

\* third lines, and none
MoreLines == { "", "jane@x.test", "(470) 643-7013" }

\* the mail as text, and in the <p> block format inside a <div>
FcbbMail(name, listing, more, html) ==
    IF html
    THEN "<div><p>" \o name \o "</p><p>" \o listing \o "</p>"
            \o (IF more = "" THEN "" ELSE "<p>" \o more \o "</p>") \o "<p>www.fcbb.com</p></div>"
    ELSE name \o NL \o listing \o NL \o (IF more = "" THEN "" ELSE more \o NL) \o "www.fcbb.com"

\* extract_fcbb_html(body) if is_html else extract_fcbb_text(body), lines 1356-1357
ExtractFcbb ==
    /\ call.fn = ""
    /\ \E name \in NameLines, listing \in ListingLines, more \in MoreLines, html \in BOOLEAN :
          /\ Extraction("fcbb", html, FcbbMail(name, listing, more, html)).exc = ""
          /\ call' = [fn |-> Extractor("fcbb", html), args |-> <<FcbbMail(name, listing, more, html)>>, again |-> FALSE]
          /\ ret' = Extraction("fcbb", html, FcbbMail(name, listing, more, html)).flat
    /\ UNCHANGED router

FcbbNext == ExtractFcbb \/ Forget

FcbbSpec == Init /\ [][FcbbNext]_vars

\* s is letters and digits with one or more hyphens between them
IsHyphenatedToken(s) ==
    /\ \E i \in 2..(Len(s) - 1) : At(s, i) = "-"
    /\ \A i \in 1..Len(s) :
          \/ IsAlpha(At(s, i)) \/ IsDigit(At(s, i))
          \/ At(s, i) = "-" /\ 1 < i /\ i < Len(s) /\ At(s, i - 1) # "-"

\* a line with a hyphenated alphanumeric token on the left and at least one
\* letter on the right
Splittable(ln) ==
    \E i \in 2..(Len(ln) - 1) :
        /\ At(ln, i) = " "
        /\ IsHyphenatedToken(Slice(ln, 1, i - 1))
        /\ \E j \in (i + 1)..Len(ln) : IsAlpha(At(ln, j))

\* C25, as claimed: an FCBB extractor sets ref_id or headline from a line only
\* when the line has a hyphenated alphanumeric token on the left and at least
\* one letter on the right; a line whose right-hand part holds no letter sets
\* neither
C25_NoSplitWithoutLetters ==
    \A name \in NameLines, listing \in ListingLines, more \in MoreLines, html \in BOOLEAN :
        /\ call.fn = Extractor("fcbb", html)
        /\ call.args = <<FcbbMail(name, listing, more, html)>>
        /\ ~Splittable(listing)
        => ret.ref_id = "" /\ ret.headline = ""

(***************************************************************************)
(* clean_comments_block applied to its own result: C26.                    *)
(***************************************************************************)
\* lines that turn into a separator line once a later step has run: dashes
\* before a boilerplate phrase, and dashes with a carriage return among them
MarkedLines ==
    { "--- Confidentiality Notice: private", "___ do not disseminate", "-\r--" }

\* raw comment blocks of two parts, the second possibly a marked line
RecleanBlocks ==
    { JoinNewline(<<a, b>>) : a \in CommentLines, b \in CommentLines \cup MarkedLines }

\* clean_comments_block(x) for a raw comment block x
CleanFirst ==
    /\ call.fn = ""
    /\ \E x \in RecleanBlocks :
          /\ call' = [fn |-> "clean_comments_block", args |-> <<x>>, again |-> FALSE]
          /\ ret' = clean_comments_block(x)
    /\ UNCHANGED router

\* clean_comments_block of what the call before returned
CleanAgain ==
    /\ call.fn = "clean_comments_block"
    /\ ~call.again
    /\ call' = [fn |-> "clean_comments_block", args |-> <<ret>>, again |-> TRUE]
    /\ ret' = clean_comments_block(ret)
    /\ UNCHANGED router

RecleanNext == CleanFirst \/ CleanAgain \/ Forget

RecleanSpec == Init /\ [][RecleanNext]_vars

\* C26, as claimed: clean_comments_block is idempotent, and its result holds
\* no line that consists of three or more '-' or '_' only, also when the
\* removal of boilerplate leaves such a line behind
C26_IdempotentAndSeparatorFree ==
    call.fn = "clean_comments_block" =>
        /\ SeparatorLines(ret) = {}
        /\ call.again => ret = call.args[1]

=============================================================================
